---------------------------- MODULE Spec2Model ----------------------------
(***************************************************************************)
(* Shopping-cart aggregation and export of the foodgram backend            *)
(* (backend/api/views.py, backend/foodgram/api/views.py, food/models.py).  *)
(* Text is modelled as sequences of one-character strings, so formatting,  *)
(* parsing, case folding and sorting are computed character by character.  *)
(***************************************************************************)
EXTENDS Integers, Sequences, FiniteSets, Bags, TLC

\* ------------------------------------------------------------------ bounds
MaxAmount == 2

Users == {"u1", "u2"}
RecipeIds == 1..2

\* A query parameter that the request does not carry (QueryDict.get -> None);
\* no text equals it, texts being sequences of single characters.
NoParam == <<"absent">>

\* ------------------------------------------------------------ text helpers
RECURSIVE Flatten(_)
Flatten(ss) == IF ss = <<>> THEN <<>> ELSE Head(ss) \o Flatten(Tail(ss))

Range(s) == {s[i] : i \in 1..Len(s)}

\* All orderings of a finite set, as sequences without repetition.
Perms(S) == {p \in [1..Cardinality(S) -> S] : Range(p) = S}

Digits == <<"0", "1", "2", "3", "4", "5", "6", "7", "8", "9">>

DigitValue(c) == (CHOOSE i \in 1..10 : Digits[i] = c) - 1

IsDigit(c) == c \in Range(Digits)

\* str(n) for n >= 0 : decimal digits, most significant first.
RECURSIVE Str(_)
Str(n) == IF n < 10 THEN <<Digits[n + 1]>>
          ELSE Str(n \div 10) \o <<Digits[(n % 10) + 1]>>

\* Unicode code point of the characters that occur in names and units.
Ord(c) == CASE c = " " -> 32
            [] c = "(" -> 40
            [] c = ")" -> 41
            [] c = "," -> 44
            [] c = "a" -> 97
            [] c = "b" -> 98
            [] c = "c" -> 99
            [] c = "g" -> 103
            [] c = "k" -> 107

\* Python's str.__lt__ : lexicographic by code point, a proper prefix is less.
RECURSIVE StrLess(_, _)
StrLess(s, t) ==
    IF t = <<>> THEN FALSE
    ELSE IF s = <<>> THEN TRUE
    ELSE IF Head(s) # Head(t) THEN Ord(Head(s)) < Ord(Head(t))
    ELSE StrLess(Tail(s), Tail(t))

\* str.lower() on the ASCII letters that the format values use.
LowerChar(c) == CASE c = "T" -> "t"
                  [] c = "X" -> "x"
                  [] c = "P" -> "p"
                  [] c = "D" -> "d"
                  [] c = "F" -> "f"
                  [] c = "C" -> "c"
                  [] c = "S" -> "s"
                  [] c = "V" -> "v"
                  [] c = "M" -> "m"
                  [] c = "L" -> "l"
                  [] OTHER -> c

\* Faulty variant of Lower: the format is compared as it was sent.
Lower_AsSent(s) == s

Lower(s) == [i \in 1..Len(s) |-> LowerChar(s[i])]

\* str.split(sep) for a one-character separator: always at least one token.
RECURSIVE SplitAcc(_, _, _)
SplitAcc(s, sep, cur) ==
    IF s = <<>> THEN <<cur>>
    ELSE IF Head(s) = sep THEN <<cur>> \o SplitAcc(Tail(s), sep, <<>>)
    ELSE SplitAcc(Tail(s), sep, Append(cur, Head(s)))

Split(s, sep) == SplitAcc(s, sep, <<>>)

\* ------------------------------------------------------- int(token) parsing
RECURSIVE LStrip(_)
LStrip(s) == IF s # <<>> /\ Head(s) = " " THEN LStrip(Tail(s)) ELSE s

RECURSIVE RStrip(_)
RStrip(s) == IF s # <<>> /\ s[Len(s)] = " "
             THEN RStrip(SubSeq(s, 1, Len(s) - 1)) ELSE s

Strip(s) == RStrip(LStrip(s))

RECURSIVE DecValue(_)
DecValue(d) == IF d = <<>> THEN 0
               ELSE 10 * DecValue(SubSeq(d, 1, Len(d) - 1))
                    + DigitValue(d[Len(d)])

\* Python's int(token): surrounding whitespace is dropped, one leading sign is
\* allowed, and what remains must be a non-empty run of decimal digits;
\* anything else raises ValueError (ok = FALSE).
ParseInt(token) ==
    LET s      == Strip(token)
        signed == s # <<>> /\ Head(s) \in {"+", "-"}
        d      == IF signed THEN Tail(s) ELSE s
        ok     == d # <<>> /\ \A i \in 1..Len(d) : IsDigit(d[i])
    IN  [ok    |-> ok,
         value |-> IF ~ok THEN 0
                   ELSE IF signed /\ Head(s) = "-" THEN 0 - DecValue(d)
                   ELSE DecValue(d)]

\* Faulty variant of ParseRecipeIds: a token that int() rejects is skipped.
ParseRecipeIds_SkipBad(recipe_ids) ==
    LET tokens == Split(recipe_ids, ",")
    IN  [ok  |-> TRUE,
         ids |-> {ParseInt(tokens[i]).value :
                    i \in {j \in 1..Len(tokens) : ParseInt(tokens[j]).ok}}]

\* [int(id) for id in recipe_ids.split(',')]: ValueError if any token fails.
ParseRecipeIds(recipe_ids) ==
    LET tokens == Split(recipe_ids, ",")
    IN  [ok  |-> \A i \in 1..Len(tokens) : ParseInt(tokens[i]).ok,
         ids |-> {ParseInt(tokens[i]).value : i \in 1..Len(tokens)}]

\* -------------------------------------------------------------- data model
\* The Ingredient table: rows keyed by id, unique on (name, measurement_unit).
Ingredient ==
    1 :> [name |-> <<"a", " ", "(", "b", ",", "c", ")">>, measurement_unit |-> <<"g">>]
    @@ 2 :> [name |-> <<"a">>, measurement_unit |-> <<"k", "g">>]
    @@ 3 :> [name |-> <<"a">>, measurement_unit |-> <<"g">>]

IngredientIds == DOMAIN Ingredient

VARIABLES
    users,               \* the rows of the User table, by name
    follow,              \* Follow rows [user, following], as a bag
    recipes,             \* ids of the rows of the Recipe table
    author,              \* Recipe.author, for every id in recipes
    short_link,          \* Recipe.short_link, for every id in recipes
    last_recipe_id,      \* the last id that the Recipe table has given out
    recipe_ingredients,  \* RecipeIngredient rows [recipe, ingredient, amount]
    shopping_cart,       \* ShoppingCart rows [user, recipe], as a bag
    requests,            \* shopping_cart requests in progress, per worker
    request,             \* the request being answered, NoRequest when idle
    cart_items,          \* the cart rows download_shopping_cart iterated
    ingredients,         \* the dict download_shopping_cart built
    response             \* the response being returned, NoResponse when idle

vars == <<users, follow, recipes, author, short_link, last_recipe_id, recipe_ingredients,
          shopping_cart, requests, request, cart_items, ingredients, response>>

Request(view, method, user, recipe, recipe_ids, format) ==
    [view |-> view, method |-> method, user |-> user, recipe |-> recipe,
     recipe_ids |-> recipe_ids, format |-> format]

NoRequest == Request("", "", "", 0, NoParam, NoParam)

\* A request to the recipes endpoint that carries recipe data: whether it has
\* an ingredients field, and the [id, amount] items of that field.
RecipeRequest(method, user, recipe, has_ingredients, data) ==
    [view |-> "recipes", method |-> method, user |-> user, recipe |-> recipe,
     recipe_ids |-> NoParam, format |-> NoParam,
     has_ingredients |-> has_ingredients,
     data |-> IF has_ingredients THEN data ELSE <<>>]

\* HttpResponse / Response as the client sees it.
ErrorResponse(code, message) ==
    [status |-> code, error |-> message, content_type |-> "application/json",
     filename |-> "", body |-> <<>>, canvas |-> <<>>]

\* No response is being returned: the worker is idle.
NoResponse == ErrorResponse(0, "")

FileResponse(ctype, fname, text, ops) ==
    [status |-> 200, error |-> "", content_type |-> ctype,
     filename |-> fname, body |-> text, canvas |-> ops]

\* ------------------------------------------------------------- aggregation
\* Faulty variant of CartItems: the recipe_id__in filter is not applied.
CartItems_AllRows(user, scope, cart_order) ==
    LET RowsOf(r) ==
            [i \in 1..CopiesIn([user |-> user, recipe |-> r], shopping_cart) |->
                [user |-> user, recipe |-> r]]
    IN  Flatten([i \in 1..Len(cart_order) |-> RowsOf(cart_order[i])])

\* user.shopping_cart.all() / .filter(recipe_id__in=ids), rows in the order
\* the database returns them. The order of an unordered query is not
\* specified: cart_order is the order in which it yields the recipes.
CartItems(user, scope, cart_order) ==
    LET RowsOf(r) ==
            IF r \in scope
            THEN [i \in 1..CopiesIn([user |-> user, recipe |-> r],
                                     shopping_cart) |->
                     [user |-> user, recipe |-> r]]
            ELSE <<>>
    IN  Flatten([i \in 1..Len(cart_order) |-> RowsOf(cart_order[i])])

\* item.recipe.recipe_ingredients.all(), in the order line_order gives to the
\* ingredients of the rows.
RecipeLines(recipe, line_order) ==
    LET RowsOf(g) ==
            LET S == {ri \in recipe_ingredients :
                        ri.recipe = recipe /\ ri.ingredient = g}
            IN  IF S = {} THEN <<>> ELSE <<CHOOSE ri \in S : TRUE>>
    IN  Flatten([i \in 1..Len(line_order) |-> RowsOf(line_order[i])])

\* Faulty variant of DictAdd: a new key is entered with 0, as setdefault
\* would, and the amount is added to known keys only.
DictAdd_StartsAtZero(d, key, amount) ==
    IF \E i \in 1..Len(d) : d[i].key = key
    THEN [i \in 1..Len(d) |->
             IF d[i].key = key
             THEN [key |-> key, total |-> d[i].total + amount]
             ELSE d[i]]
    ELSE Append(d, [key |-> key, total |-> 0])

\* Faulty variants of DictAdd: ingredients[key] = amount, which forgets what
\* the key held, and a list of lines in place of a dict, which never merges.
DictAdd_Overwrite(d, key, amount) ==
    IF \E i \in 1..Len(d) : d[i].key = key
    THEN [i \in 1..Len(d) |->
             IF d[i].key = key THEN [key |-> key, total |-> amount] ELSE d[i]]
    ELSE Append(d, [key |-> key, total |-> amount])

DictAdd_Append(d, key, amount) == Append(d, [key |-> key, total |-> amount])

\* ingredients[key] += amount on a defaultdict(int): a new key is appended
\* (dicts keep insertion order), a known key keeps its position.
DictAdd(d, key, amount) ==
    IF \E i \in 1..Len(d) : d[i].key = key
    THEN [i \in 1..Len(d) |->
             IF d[i].key = key
             THEN [key |-> key, total |-> d[i].total + amount]
             ELSE d[i]]
    ELSE Append(d, [key |-> key, total |-> amount])

RECURSIVE AddLines(_, _)
AddLines(d, lines) ==
    IF lines = <<>> THEN d
    ELSE LET ri  == Head(lines)
             key == <<Ingredient[ri.ingredient].name,
                      Ingredient[ri.ingredient].measurement_unit>>
         IN  AddLines(DictAdd(d, key, ri.amount), Tail(lines))

\* Faulty variant of Aggregate: the loop over the cart items ends after the
\* first item.
Aggregate_FirstItemOnly(d, items, line_order) ==
    IF items = <<>> THEN d
    ELSE AddLines(d, RecipeLines(Head(items).recipe, line_order))

\* The two nested loops of download_shopping_cart.
RECURSIVE Aggregate(_, _, _)
Aggregate(d, items, line_order) ==
    IF items = <<>> THEN d
    ELSE Aggregate(AddLines(d, RecipeLines(Head(items).recipe, line_order)),
                   Tail(items), line_order)

\* ------------------------------------------------------------------ sorted
\* Faulty variant of ItemLess: the items are compared by amount.
ItemLess_ByAmount(a, b) == a.total < b.total

\* Tuple comparison of ((name, unit), amount) items.
ItemLess(a, b) ==
    \/ StrLess(a.key[1], b.key[1])
    \/ a.key[1] = b.key[1] /\ StrLess(a.key[2], b.key[2])
    \/ a.key = b.key /\ a.total < b.total

\* Faulty variant of Sorted: ingredients.items() in insertion order.
Sorted_InsertionOrder(d) == d

\* sorted(ingredients.items()): the items in ascending order. The keys of a
\* dict are distinct, so no two items compare equal.
Sorted(d) == SortSeq(d, ItemLess)

\* --------------------------------------------------------------- renderers
\* Characters outside ASCII are written by code point: "U+2014" is the em
\* dash, "U+0421" the Cyrillic capital Es, and so on.
\* The title line of the list, in Russian: "Shopping list:".
Title == <<"U+0421", "U+043F", "U+0438", "U+0441", "U+043E", "U+043A", " ", "U+043F", "U+043E", "U+043A", "U+0443", "U+043F", "U+043E", "U+043A", ":">>

\* f"- {name} ({unit}) — {amount}"
EntryText(item) ==
    <<"-", " ">> \o item.key[1] \o <<" ", "(">> \o item.key[2]
        \o <<")", " ", "U+2014", " ">> \o Str(item.total)

RECURSIVE TxtLines(_)
TxtLines(items) ==
    IF items = <<>> THEN <<>>
    ELSE EntryText(Head(items)) \o <<"\n">> \o TxtLines(Tail(items))

\* Faulty variant of TxtBody: one newline after the title, no blank line.
TxtBody_NoBlankLine(d) == Title \o <<"\n">> \o TxtLines(Sorted(d))

\* text = title + two newlines, then one line per sorted item.
TxtBody(d) == Title \o <<"\n", "\n">> \o TxtLines(Sorted(d))

SHOPPING_LIST_TXT_FILENAME == "shopping_list.txt"

_generate_txt_response(d) ==
    FileResponse("text/plain; charset=utf-8", SHOPPING_LIST_TXT_FILENAME,
                 TxtBody(d), <<>>)

\* csv.writer, excel dialect: a field holding the delimiter, the quote
\* character or a line break is quoted, with its quotes doubled.
CsvSpecial == {",", "\"", "\r", "\n"}

RECURSIVE DoubleQuotes(_)
DoubleQuotes(s) ==
    IF s = <<>> THEN <<>>
    ELSE (IF Head(s) = "\"" THEN <<"\"", "\"">> ELSE <<Head(s)>>)
         \o DoubleQuotes(Tail(s))

\* Faulty variant of CsvField: the row is a plain ','.join(fields).
CsvField_Unquoted(s) == s

CsvField(s) ==
    IF Range(s) \cap CsvSpecial # {}
    THEN <<"\"">> \o DoubleQuotes(s) \o <<"\"">>
    ELSE s

\* writer.writerow(fields): fields joined by commas, ended by CRLF.
RECURSIVE CsvJoin(_)
CsvJoin(fields) ==
    IF Len(fields) = 1 THEN CsvField(Head(fields))
    ELSE CsvField(Head(fields)) \o <<",">> \o CsvJoin(Tail(fields))

CsvRow(fields) == CsvJoin(fields) \o <<"\r", "\n">>

\* The header row, in Russian: Ingredient, Measurement unit, Amount.
CsvHeader == <<<<"U+0418", "U+043D", "U+0433", "U+0440", "U+0435", "U+0434", "U+0438", "U+0435", "U+043D", "U+0442">>,
               <<"U+0415", "U+0434", "U+0438", "U+043D", "U+0438", "U+0446", "U+0430", " ", "U+0438", "U+0437", "U+043C", "U+0435", "U+0440", "U+0435", "U+043D", "U+0438", "U+044F">>,
               <<"U+041A", "U+043E", "U+043B", "U+0438", "U+0447", "U+0435", "U+0441", "U+0442", "U+0432", "U+043E">>>>

RECURSIVE CsvDataRows(_)
CsvDataRows(items) ==
    IF items = <<>> THEN <<>>
    ELSE CsvRow(<<Head(items).key[1], Head(items).key[2],
                  Str(Head(items).total)>>)
         \o CsvDataRows(Tail(items))

\* Faulty variant of CsvBody: the header row is not written.
CsvBody_NoHeader(d) == CsvDataRows(Sorted(d))

CsvBody(d) == CsvRow(CsvHeader) \o CsvDataRows(Sorted(d))

SHOPPING_LIST_CSV_FILENAME == "shopping_list.csv"

_generate_csv_response(d) ==
    FileResponse("text/csv; charset=utf-8", SHOPPING_LIST_CSV_FILENAME,
                 CsvBody(d), <<>>)

\* The reportlab canvas, as the sequence of calls made on it.
PDF_START_X == 50
PDF_START_Y == 800
PDF_TITLE_Y == 770
PDF_MIN_Y == 50
PDF_LINE_HEIGHT == 20
PDF_TITLE_FONT_SIZE == 14
PDF_REGULAR_FONT_SIZE == 12
PDF_FONT_BOLD == "Helvetica-Bold"
PDF_FONT_REGULAR == "Helvetica"

SetFont(font, size) ==
    [op |-> "setFont", font |-> font, size |-> size, x |-> 0, y |-> 0,
     text |-> <<>>]

DrawString(x, y, text) ==
    [op |-> "drawString", font |-> "", size |-> 0, x |-> x, y |-> y,
     text |-> text]

ShowPage ==
    [op |-> "showPage", font |-> "", size |-> 0, x |-> 0, y |-> 0,
     text |-> <<>>]

\* Faulty variant of PdfEntries: a new page starts at the height of the first
\* page's first entry, PDF_TITLE_Y, not at PDF_START_Y.
RECURSIVE PdfEntries_NewPageBelowTitle(_, _)
PdfEntries_NewPageBelowTitle(items, y_position) ==
    IF items = <<>> THEN <<>>
    ELSE LET break == y_position < PDF_MIN_Y
             y     == IF break THEN PDF_TITLE_Y ELSE y_position
         IN  (IF break
              THEN <<ShowPage, SetFont(PDF_FONT_REGULAR, PDF_REGULAR_FONT_SIZE)>>
              ELSE <<>>)
             \o <<DrawString(PDF_START_X, y, EntryText(Head(items)))>>
             \o PdfEntries_NewPageBelowTitle(Tail(items), y - PDF_LINE_HEIGHT)

\* Faulty variant of PdfEntries: the page also breaks at the threshold itself.
RECURSIVE PdfEntries_BreakAtThreshold(_, _)
PdfEntries_BreakAtThreshold(items, y_position) ==
    IF items = <<>> THEN <<>>
    ELSE LET break == y_position <= PDF_MIN_Y
             y     == IF break THEN PDF_START_Y ELSE y_position
         IN  (IF break
              THEN <<ShowPage, SetFont(PDF_FONT_REGULAR, PDF_REGULAR_FONT_SIZE)>>
              ELSE <<>>)
             \o <<DrawString(PDF_START_X, y, EntryText(Head(items)))>>
             \o PdfEntries_BreakAtThreshold(Tail(items), y - PDF_LINE_HEIGHT)

\* The loop of _generate_pdf_response: a page break before an entry whose
\* y_position has fallen below PDF_MIN_Y.
RECURSIVE PdfEntries(_, _)
PdfEntries(items, y_position) ==
    IF items = <<>> THEN <<>>
    ELSE LET break == y_position < PDF_MIN_Y
             y     == IF break THEN PDF_START_Y ELSE y_position
         IN  (IF break
              THEN <<ShowPage, SetFont(PDF_FONT_REGULAR, PDF_REGULAR_FONT_SIZE)>>
              ELSE <<>>)
             \o <<DrawString(PDF_START_X, y, EntryText(Head(items)))>>
             \o PdfEntries(Tail(items), y - PDF_LINE_HEIGHT)

PdfCanvas(d) ==
    <<SetFont(PDF_FONT_BOLD, PDF_TITLE_FONT_SIZE),
      DrawString(PDF_START_X, PDF_START_Y, Title),
      SetFont(PDF_FONT_REGULAR, PDF_REGULAR_FONT_SIZE)>>
    \o PdfEntries(Sorted(d), PDF_TITLE_Y)
    \o <<ShowPage>>

SHOPPING_LIST_PDF_FILENAME == "shopping_list.pdf"

_generate_pdf_response(d) ==
    FileResponse("application/pdf", SHOPPING_LIST_PDF_FILENAME, <<>>,
                 PdfCanvas(d))

\* ------------------------------------------------------ request parameters
\* Values of the recipe_ids query parameter that the requests carry.
RecipeIdsParams ==
    {NoParam, <<>>, <<"1">>, <<"2", ",", "1">>, <<"3">>, <<"a">>, <<"1", ",", ",", "2">>,
     <<"-", "1">>, <<" ", "2">>, <<"1", ",", "a">>}

\* Values of the format query parameter that the requests carry.
FormatParams ==
    {NoParam, <<"t", "x", "t">>, <<"p", "d", "f">>, <<"c", "s", "v">>, <<"P", "D", "F">>, <<"P", "d", "f">>,
     <<"C", "S", "V">>, <<"x", "m", "l">>, <<>>}

\* The ingredients lists that recipe requests submit, as [id, amount] items:
\* one line, two lines, the whole catalogue, and three lists that validation
\* rejects (empty, an amount below one, a repeated ingredient).
Item(id, amount) == [id |-> id, amount |-> amount]

IngredientsData ==
    {<<Item(3, 1)>>,
     <<Item(1, MaxAmount), Item(3, 1)>>,
     <<Item(2, 1), Item(1, 1)>>,
     <<Item(2, MaxAmount), Item(1, 1), Item(3, MaxAmount)>>,
     <<>>,
     <<Item(3, 0)>>,
     <<Item(1, 1), Item(1, MaxAmount)>>}

\* ------------------------------------------------ download_shopping_cart
INVALID_RECIPE_IDS == "invalid recipe_ids format"
NO_INGREDIENTS == "no ingredients to download"
UNSUPPORTED_FORMAT == "unsupported format, available: txt, pdf, csv"

\* Faulty variant of Render: an unknown format falls back to the txt file.
Render_FallsBackToTxt(d, format) ==
    LET fmt == Lower(IF format = NoParam THEN <<"t", "x", "t">> ELSE format)
    IN  IF fmt = <<"p", "d", "f">> THEN _generate_pdf_response(d)
        ELSE IF fmt = <<"c", "s", "v">> THEN _generate_csv_response(d)
        ELSE _generate_txt_response(d)

\* The dispatch on the lower-cased format, 'txt' when the parameter is absent.
Render(d, format) ==
    LET fmt == Lower(IF format = NoParam THEN <<"t", "x", "t">> ELSE format)
    IN  IF fmt = <<"t", "x", "t">> THEN _generate_txt_response(d)
        ELSE IF fmt = <<"p", "d", "f">> THEN _generate_pdf_response(d)
        ELSE IF fmt = <<"c", "s", "v">> THEN _generate_csv_response(d)
        ELSE ErrorResponse(400, UNSUPPORTED_FORMAT)

\* `if recipe_ids:` is false for a missing parameter and for the empty string.
Filtered(recipe_ids) == recipe_ids # NoParam /\ recipe_ids # <<>>

\* The recipes whose cart rows the queryset selects.
Scope(recipe_ids) ==
    IF Filtered(recipe_ids) THEN ParseRecipeIds(recipe_ids).ids ELSE RecipeIds

\* The user's cart rows, as a set of recipe ids.
CartRecipes(user) ==
    {r \in RecipeIds : CopiesIn([user |-> user, recipe |-> r], shopping_cart) > 0}

\* Faulty variant of CollectIngredients: the queryset is taken from the
\* ShoppingCart table instead of user.shopping_cart, so that the rows of the
\* other users follow the user's own.
CollectIngredients_EveryCart(user, recipe_ids, cart_order, line_order) ==
    IF Filtered(recipe_ids) /\ ~ParseRecipeIds(recipe_ids).ok
    THEN [failed |-> TRUE, cart_items |-> <<>>, ingredients |-> <<>>]
    ELSE LET others == CHOOSE p \in Perms(users \ {user}) : TRUE
             rest(u) == CartItems(u, Scope(recipe_ids),
                          CHOOSE p \in Perms(CartRecipes(u)) : TRUE)
             items == CartItems(user, Scope(recipe_ids), cart_order)
                      \o Flatten([i \in 1..Len(others) |-> rest(others[i])])
         IN  [failed      |-> FALSE,
              cart_items  |-> items,
              ingredients |-> Aggregate(<<>>, items, line_order)]

\* The first half of download_shopping_cart: the queryset and the two loops
\* that fill the dict. failed: the ValueError branch returned the 400.
CollectIngredients(user, recipe_ids, cart_order, line_order) ==
    IF Filtered(recipe_ids) /\ ~ParseRecipeIds(recipe_ids).ok
    THEN [failed |-> TRUE, cart_items |-> <<>>, ingredients |-> <<>>]
    ELSE LET items == CartItems(user, Scope(recipe_ids), cart_order)
         IN  [failed      |-> FALSE,
              cart_items  |-> items,
              ingredients |-> Aggregate(<<>>, items, line_order)]

\* Faulty variant of BuildResponse: the format is looked at before the dict,
\* so an unknown format is reported for an empty dict too.
BuildResponse_FormatFirst(collected, format) ==
    IF collected.failed THEN ErrorResponse(400, INVALID_RECIPE_IDS)
    ELSE IF Render(<<>>, format).status = 400
    THEN ErrorResponse(400, UNSUPPORTED_FORMAT)
    ELSE IF collected.ingredients = <<>>
    THEN ErrorResponse(400, NO_INGREDIENTS)
    ELSE Render(collected.ingredients, format)

\* Faulty variant of BuildResponse: the `if not ingredients` check is missing.
BuildResponse_NoEmptyCheck(collected, format) ==
    IF collected.failed THEN ErrorResponse(400, INVALID_RECIPE_IDS)
    ELSE Render(collected.ingredients, format)

\* The second half: the empty check, then the dispatch on the format.
BuildResponse(collected, format) ==
    IF collected.failed THEN ErrorResponse(400, INVALID_RECIPE_IDS)
    ELSE IF collected.ingredients = <<>>
    THEN ErrorResponse(400, NO_INGREDIENTS)
    ELSE Render(collected.ingredients, format)

\* Faulty variant of DownloadWith: the cart rows that were exported are
\* deleted, as if the download were a checkout.
DownloadWith_EmptiesCart(recipe_ids_params, format_params) ==
    /\ response = NoResponse
    /\ \E user \in users, recipe_ids \in recipe_ids_params :
       \E cart_order \in Perms(CartRecipes(user)) :
       \E line_order \in Perms({ri.ingredient : ri \in recipe_ingredients}) :
          LET collected == CollectIngredients(user, recipe_ids, cart_order,
                                              line_order)
              exported  == Range(collected.cart_items)
          IN  /\ cart_items' = collected.cart_items
              /\ ingredients' = collected.ingredients
              /\ shopping_cart' =
                    [row \in DOMAIN shopping_cart \ exported |->
                        shopping_cart[row]]
              /\ \E format \in format_params :
                   /\ request' = Request("download_shopping_cart", "GET",
                                         user, 0, recipe_ids, format)
                   /\ response' = BuildResponse(collected, format)
    /\ UNCHANGED <<follow, users, recipes, author, short_link, last_recipe_id, recipe_ingredients,
                   requests>>

\* GET recipes/download_shopping_cart/, with the recipe_ids and format
\* parameters taken from the given sets.
DownloadWith(recipe_ids_params, format_params) ==
    /\ response = NoResponse
    /\ \E user \in users, recipe_ids \in recipe_ids_params :
       \E cart_order \in Perms(CartRecipes(user)) :
       \E line_order \in Perms({ri.ingredient : ri \in recipe_ingredients}) :
          LET collected == CollectIngredients(user, recipe_ids, cart_order,
                                              line_order)
          IN  /\ cart_items' = collected.cart_items
              /\ ingredients' = collected.ingredients
              /\ \E format \in format_params :
                   /\ request' = Request("download_shopping_cart", "GET",
                                         user, 0, recipe_ids, format)
                   /\ response' = BuildResponse(collected, format)
    /\ UNCHANGED <<follow, users, recipes, author, short_link, last_recipe_id, recipe_ingredients,
                   shopping_cart, requests>>

Download == DownloadWith(RecipeIdsParams, FormatParams)

\* ------------------------------------------------------------ shopping_cart
ALREADY_IN_CART == "recipe already in shopping cart"
NOT_IN_CART == "recipe not in shopping cart"
NOT_FOUND == "not found"
INTEGRITY_ERROR == "IntegrityError"

CartRow(user, recipe) == [user |-> user, recipe |-> recipe]

\* ShoppingCart.objects.filter(user=..., recipe=...).exists()
InCart(user, recipe) == CopiesIn(CartRow(user, recipe), shopping_cart) > 0

\* Faulty variant of UniqueShoppingCart: the model has no constraint.
UniqueShoppingCart_Missing(row) == TRUE

\* The unique_shopping_cart constraint: an INSERT of a second row for the
\* same (user, recipe) raises IntegrityError.
UniqueShoppingCart(row) == CopiesIn(row, shopping_cart) = 0

\* POST recipes/<id>/shopping_cart/, run without interruption.
ShoppingCartPost ==
    /\ response = NoResponse
    /\ \E user \in users, recipe \in RecipeIds :
       /\ request' = Request("shopping_cart", "POST", user, recipe,
                             NoParam, NoParam)
       /\ IF recipe \notin recipes
          THEN /\ response' = ErrorResponse(404, NOT_FOUND)
               /\ UNCHANGED shopping_cart
          ELSE IF InCart(user, recipe)
          THEN /\ response' = ErrorResponse(400, ALREADY_IN_CART)
               /\ UNCHANGED shopping_cart
          ELSE IF ~UniqueShoppingCart(CartRow(user, recipe))
          THEN /\ response' = ErrorResponse(500, INTEGRITY_ERROR)
               /\ UNCHANGED shopping_cart
          ELSE /\ shopping_cart' = shopping_cart (+) SetToBag({CartRow(user, recipe)})
               /\ response' = ErrorResponse(201, "")
    /\ UNCHANGED <<follow, users, recipes, author, short_link, last_recipe_id, recipe_ingredients, requests, cart_items,
                   ingredients>>

\* Faulty variant of ShoppingCartDelete: the rows of the recipe are deleted
\* for every user.
ShoppingCartDelete_ForEveryUser ==
    /\ response = NoResponse
    /\ \E user \in users, recipe \in RecipeIds :
       /\ request' = Request("shopping_cart", "DELETE", user, recipe,
                             NoParam, NoParam)
       /\ IF recipe \notin recipes
          THEN /\ response' = ErrorResponse(404, NOT_FOUND)
               /\ UNCHANGED shopping_cart
          ELSE IF ~InCart(user, recipe)
          THEN /\ response' = ErrorResponse(400, NOT_IN_CART)
               /\ UNCHANGED shopping_cart
          ELSE /\ shopping_cart' =
                     [row \in {x \in DOMAIN shopping_cart : x.recipe # recipe}
                        |-> shopping_cart[row]]
               /\ response' = ErrorResponse(204, "")
    /\ UNCHANGED <<follow, users, recipes, author, short_link, last_recipe_id, recipe_ingredients,
                   requests, cart_items, ingredients>>

\* DELETE recipes/<id>/shopping_cart/, run without interruption.
ShoppingCartDelete ==
    /\ response = NoResponse
    /\ \E user \in users, recipe \in RecipeIds :
       /\ request' = Request("shopping_cart", "DELETE", user, recipe,
                             NoParam, NoParam)
       /\ IF recipe \notin recipes
          THEN /\ response' = ErrorResponse(404, NOT_FOUND)
               /\ UNCHANGED shopping_cart
          ELSE IF ~InCart(user, recipe)
          THEN /\ response' = ErrorResponse(400, NOT_IN_CART)
               /\ UNCHANGED shopping_cart
          ELSE /\ shopping_cart' = shopping_cart (-) SetToBag({CartRow(user, recipe)})
               /\ response' = ErrorResponse(204, "")
    /\ UNCHANGED <<follow, users, recipes, author, short_link, last_recipe_id, recipe_ingredients, requests, cart_items,
                   ingredients>>

\* ------------------------------------------------------------------ recipes
\* The alphabet and the least length that generate_hash gives to Hashids.
SHORT_LINK_ALPHABET ==
    <<"a", "b", "c", "d", "e", "f", "g", "h", "i", "j", "k", "l", "m", "n",
      "o", "p">>
SHORT_LINK_MIN_LENGTH == 3

\* The digits of n over the alphabet, the most significant first.
RECURSIVE Numeral(_)
Numeral(n) ==
    LET base  == Len(SHORT_LINK_ALPHABET)
        digit == <<SHORT_LINK_ALPHABET[(n % base) + 1]>>
    IN  IF n < base THEN digit ELSE Numeral(n \div base) \o digit

\* Faulty variant of generate_hash: the id is not passed on to encode, as in
\* a call generate_hash() of a function whose parameter has a default.
generate_hash_IgnoresId(recipe_id) ==
    LET code == Numeral(0)
    IN  [i \in 1..(SHORT_LINK_MIN_LENGTH - Len(code)) |->
            SHORT_LINK_ALPHABET[1]] \o code

\* generate_hash: Hashids(min_length, salt, alphabet).encode(recipe_id). The
\* library maps every non-negative integer to a string over the alphabet of
\* at least min_length characters from which the integer can be decoded:
\* here its numeral over the alphabet, padded on the left.
generate_hash(recipe_id) ==
    LET code == Numeral(recipe_id)
    IN  [i \in 1..(SHORT_LINK_MIN_LENGTH - Len(code)) |->
            SHORT_LINK_ALPHABET[1]] \o code

\* Faulty variant of ValidIngredients: a repeated ingredient is let through.
ValidIngredients_AllowsRepeats(data) ==
    /\ \A i \in 1..Len(data) : data[i].amount >= 1
    /\ data # <<>>

\* RecipeIngredientSerializer.validate_amount on every item, then
\* RecipeSerializer.validate_ingredients on the list.
ValidIngredients(data) ==
    /\ \A i \in 1..Len(data) : data[i].amount >= 1
    /\ data # <<>>
    /\ \A i, j \in 1..Len(data) : data[i].id = data[j].id => i = j

\* Faulty variant of _process_ingredients: the submitted lines are merged
\* into the recipe's lines, and the lines of other ingredients stay.
_process_ingredients_Merges(recipe, ingredients_data) ==
    {ri \in recipe_ingredients :
        \/ ri.recipe # recipe
        \/ \A i \in 1..Len(ingredients_data) :
              ingredients_data[i].id # ri.ingredient}
    \cup {[recipe |-> recipe, ingredient |-> ingredients_data[i].id,
           amount |-> ingredients_data[i].amount] :
             i \in 1..Len(ingredients_data)}

\* RecipeSerializer._process_ingredients: the recipe's lines are deleted,
\* then one RecipeIngredient row per submitted item is stored.
_process_ingredients(recipe, ingredients_data) ==
    {ri \in recipe_ingredients : ri.recipe # recipe}
    \cup {[recipe |-> recipe, ingredient |-> ingredients_data[i].id,
           amount |-> ingredients_data[i].amount] :
             i \in 1..Len(ingredients_data)}

VALIDATION_ERROR == "validation error"
PERMISSION_DENIED == "permission denied"

\* POST recipes/ : the recipe row gets the next id and the requesting user as
\* its author, then _process_ingredients stores its lines.
CreateRecipeBy(authors) ==
    /\ response = NoResponse
    /\ \E user \in users \cap authors, data \in IngredientsData :
       /\ request' = RecipeRequest("POST", user, 0, TRUE, data)
       /\ IF ~ValidIngredients(data)
          THEN /\ response' = ErrorResponse(400, VALIDATION_ERROR)
               /\ UNCHANGED <<recipes, author, short_link, last_recipe_id,
                              recipe_ingredients>>
          ELSE LET id == last_recipe_id + 1
               IN  /\ id \in RecipeIds
                   /\ last_recipe_id' = id
                   /\ recipes' = recipes \cup {id}
                   /\ author' = [r \in recipes \cup {id} |->
                                    IF r = id THEN user ELSE author[r]]
                   /\ short_link' = [r \in recipes \cup {id} |->
                                        IF r = id THEN generate_hash(id)
                                        ELSE short_link[r]]
                   /\ recipe_ingredients' = _process_ingredients(id, data)
                   /\ response' = ErrorResponse(201, "")
    /\ UNCHANGED <<follow, users, shopping_cart, requests, cart_items, ingredients>>

\* The users who submit recipes where the behaviours are about the export.
Authors == {"u1"}

CreateRecipe == CreateRecipeBy(Authors)

\* The rows of the cart table, held as a bag, that are left when the users
\* and the recipes that they reference are deleted (on_delete=CASCADE).
Rows(table, gone_users, gone_recipes) ==
    [row \in {r \in DOMAIN table :
                 r.user \notin gone_users /\ r.recipe \notin gone_recipes}
       |-> table[row]]

\* PATCH recipes/<id>/ : get_object (404), the serializer's validation (400),
\* perform_update's check of the author (403), then RecipeSerializer.update.
\* has_ingredients: the request has an ingredients field, which holds data.
UpdateRecipe ==
    /\ response = NoResponse
    /\ \E user \in users, recipe \in RecipeIds, has_ingredients \in BOOLEAN,
          data \in IngredientsData :
       /\ request' = RecipeRequest("PATCH", user, recipe, has_ingredients, data)
       /\ IF recipe \notin recipes
          THEN /\ response' = ErrorResponse(404, NOT_FOUND)
               /\ UNCHANGED recipe_ingredients
          ELSE IF ~has_ingredients \/ ~ValidIngredients(data)
          THEN /\ response' = ErrorResponse(400, VALIDATION_ERROR)
               /\ UNCHANGED recipe_ingredients
          ELSE IF author[recipe] # user
          THEN /\ response' = ErrorResponse(403, PERMISSION_DENIED)
               /\ UNCHANGED recipe_ingredients
          ELSE /\ recipe_ingredients' = _process_ingredients(recipe, data)
               /\ response' = ErrorResponse(200, "")
    /\ UNCHANGED <<follow, users, recipes, author, short_link, last_recipe_id, shopping_cart,
                   requests, cart_items, ingredients>>

\* The database after instance.delete() on the given Recipe rows: the rows
\* that reference them through a ForeignKey with on_delete=CASCADE go too.
DeleteRecipes(gone) ==
    /\ recipes' = recipes \ gone
    /\ author' = [r \in recipes \ gone |-> author[r]]
    /\ short_link' = [r \in recipes \ gone |-> short_link[r]]
    /\ recipe_ingredients' = {ri \in recipe_ingredients : ri.recipe \notin gone}

\* Faulty variant of DeleteRecipe: the cart rows of the recipe are left behind.
DeleteRecipe_LeavesCartRows ==
    /\ response = NoResponse
    /\ \E user \in users, recipe \in RecipeIds :
       /\ request' = Request("recipes", "DELETE", user, recipe, NoParam, NoParam)
       /\ IF recipe \notin recipes
          THEN /\ response' = ErrorResponse(404, NOT_FOUND)
               /\ UNCHANGED <<recipes, author, short_link, recipe_ingredients>>
          ELSE IF author[recipe] # user
          THEN /\ response' = ErrorResponse(403, PERMISSION_DENIED)
               /\ UNCHANGED <<recipes, author, short_link, recipe_ingredients>>
          ELSE /\ DeleteRecipes({recipe})
               /\ response' = ErrorResponse(204, "")
    /\ UNCHANGED <<follow, users, last_recipe_id, shopping_cart, requests, cart_items,
                   ingredients>>

\* DELETE recipes/<id>/ : get_object (404), perform_destroy's check of the
\* author (403), then instance.delete().
DeleteRecipe ==
    /\ response = NoResponse
    /\ \E user \in users, recipe \in RecipeIds :
       /\ request' = Request("recipes", "DELETE", user, recipe, NoParam, NoParam)
       /\ IF recipe \notin recipes
          THEN /\ response' = ErrorResponse(404, NOT_FOUND)
               /\ UNCHANGED <<recipes, author, short_link, recipe_ingredients,
                              shopping_cart>>
          ELSE IF author[recipe] # user
          THEN /\ response' = ErrorResponse(403, PERMISSION_DENIED)
               /\ UNCHANGED <<recipes, author, short_link, recipe_ingredients,
                              shopping_cart>>
          ELSE /\ DeleteRecipes({recipe})
               /\ shopping_cart' =
                     Rows(shopping_cart, {}, {recipe})
               /\ response' = ErrorResponse(204, "")
    /\ UNCHANGED <<follow, users, last_recipe_id, requests, cart_items, ingredients>>

\* A User row is deleted: the recipes the user wrote and the user's cart rows
\* reference it with on_delete=CASCADE.
DeleteUser ==
    /\ response = NoResponse
    /\ \E user \in users :
          LET gone == {r \in recipes : author[r] = user}
          IN  /\ request' = Request("users", "DELETE", user, 0, NoParam, NoParam)
              /\ users' = users \ {user}
              /\ follow' = [row \in {f \in DOMAIN follow :
                                         f.user # user /\ f.following # user}
                               |-> follow[row]]
              /\ DeleteRecipes(gone)
              /\ shopping_cart' =
                    Rows(shopping_cart, {user}, gone)
              /\ response' = ErrorResponse(204, "")
    /\ UNCHANGED <<last_recipe_id, requests, cart_items, ingredients>>

\* -------------------------------------------------------------- short links
\* A request that carries a short link in its path.
LinkRequest(view, user, link) ==
    [view |-> view, method |-> "GET", user |-> user, recipe |-> 0,
     recipe_ids |-> NoParam, format |-> NoParam, short_link |-> link]

\* The short links that the requests carry: those of the ids and two that no
\* recipe has.
LinkParams ==
    {generate_hash(r) : r \in RecipeIds} \cup {<<"a">>, <<"z", "z", "z">>}

\* A response whose content is the given text.
TextResponse(code, text) ==
    [status |-> code, error |-> "", content_type |-> "application/json",
     filename |-> "", body |-> text, canvas |-> <<>>]

INTERNAL_ERROR == "internal server error"

\* get_object_or_404(Recipe, short_link=link): the id of the only matching
\* row; 404 if there is none, MultipleObjectsReturned (500) if several are.
GetByShortLink(link) ==
    LET found == {r \in recipes : short_link[r] = link}
    IN  IF found = {} THEN [status |-> 404, id |-> 0]
        ELSE IF Cardinality(found) > 1 THEN [status |-> 500, id |-> 0]
        ELSE [status |-> 200, id |-> CHOOSE r \in found : TRUE]

\* GET recipes/<id>/get-link/ : the stored short link in a URL. A recipe with
\* an empty short_link makes the view call generate_hash() without the id,
\* which raises TypeError (500), and nothing is saved.
GetLink ==
    /\ response = NoResponse
    /\ \E user \in users, recipe \in RecipeIds :
       /\ request' = Request("get_link", "GET", user, recipe, NoParam, NoParam)
       /\ response' =
             IF recipe \notin recipes THEN ErrorResponse(404, NOT_FOUND)
             ELSE IF short_link[recipe] = <<>>
             THEN ErrorResponse(500, INTERNAL_ERROR)
             ELSE TextResponse(200, <<"/", "s", "/">> \o short_link[recipe]
                                        \o <<"/">>)
    /\ UNCHANGED <<follow, users, recipes, author, short_link, last_recipe_id,
                   recipe_ingredients, shopping_cart, requests, cart_items,
                   ingredients>>

\* GET recipes/s/<short_link>/ : the recipe with that short link, serialized;
\* of the serialized recipe the model keeps the id.
RetrieveByShortLink ==
    /\ response = NoResponse
    /\ \E user \in users, link \in LinkParams :
          LET got == GetByShortLink(link)
          IN  /\ request' = LinkRequest("retrieve_by_short_link", user, link)
              /\ response' =
                    IF got.status = 404 THEN ErrorResponse(404, NOT_FOUND)
                    ELSE IF got.status = 500
                    THEN ErrorResponse(500, INTERNAL_ERROR)
                    ELSE TextResponse(200, Str(got.id))
    /\ UNCHANGED <<follow, users, recipes, author, short_link, last_recipe_id,
                   recipe_ingredients, shopping_cart, requests, cart_items,
                   ingredients>>

\* short_link_redirect: redirect(f'/recipes/{recipe.id}/') for the recipe
\* with that short link.
ShortLinkRedirect ==
    /\ response = NoResponse
    /\ \E user \in users, link \in LinkParams :
          LET got == GetByShortLink(link)
          IN  /\ request' = LinkRequest("short_link_redirect", user, link)
              /\ response' =
                    IF got.status = 404 THEN ErrorResponse(404, NOT_FOUND)
                    ELSE IF got.status = 500
                    THEN ErrorResponse(500, INTERNAL_ERROR)
                    ELSE TextResponse(302,
                            <<"/", "r", "e", "c", "i", "p", "e", "s", "/">>
                            \o Str(got.id) \o <<"/">>)
    /\ UNCHANGED <<follow, users, recipes, author, short_link, last_recipe_id,
                   recipe_ingredients, shopping_cart, requests, cart_items,
                   ingredients>>

\* --------------------------------------------------------------- pagination
MAX_PAGE_SIZE == 100

\* REST_FRAMEWORK['PAGE_SIZE'].
DEFAULT_PAGE_SIZE == 6

\* The characters of the limit parameters.
LimitChars == {"0", "1", "9", "-", "+", " ", "a"}

MaxLimitLen == 3

\* The values of the limit parameter: absent, or any text of at most
\* MaxLimitLen of the characters.
LimitParams ==
    {NoParam} \cup UNION {[1..n -> LimitChars] : n \in 0..MaxLimitLen}

\* A list request with its limit parameter.
ListRequest(view, user, limit) ==
    [view |-> view, method |-> "GET", user |-> user, recipe |-> 0,
     recipe_ids |-> NoParam, format |-> NoParam, limit |-> limit]

\* The answer to a list request: of the page the model keeps its size.
PageResponse(size) ==
    [status |-> 200, error |-> "", content_type |-> "application/json",
     filename |-> "", body |-> <<>>, canvas |-> <<>>, page_size |-> size]

\* paginator.page_size as BaseViewSet.paginate_queryset leaves it: a limit
\* that int() accepts and that is positive replaces the default, cut at the
\* maximum; any other limit leaves the default.
PageSize(limit) ==
    LET parsed == ParseInt(limit)
    IN  IF limit # NoParam /\ parsed.ok /\ parsed.value > 0
        THEN IF parsed.value < MAX_PAGE_SIZE THEN parsed.value
             ELSE MAX_PAGE_SIZE
        ELSE DEFAULT_PAGE_SIZE

\* LimitOffsetPagination.get_limit with max_limit = None: the limit
\* parameter itself when it is a positive integer, default_limit otherwise.
\* The paginator has no page_size of its own and reads none.
GetLimit(limit) ==
    LET parsed == ParseInt(limit)
    IN  IF limit # NoParam /\ parsed.ok /\ parsed.value > 0
        THEN parsed.value
        ELSE DEFAULT_PAGE_SIZE

\* RecipeViewSet.list: pagination_class is PageNumberPagination, whose pages
\* have paginator.page_size items.
ListRecipes ==
    /\ response = NoResponse
    /\ \E user \in users, limit \in LimitParams :
       /\ request' = ListRequest("recipes", user, limit)
       /\ response' = PageResponse(PageSize(limit))
    /\ UNCHANGED <<follow, users, recipes, author, short_link, last_recipe_id,
                   recipe_ingredients, shopping_cart, requests, cart_items,
                   ingredients>>

\* UserViewSet.list and subscriptions: no pagination_class, so the paginator
\* is the DEFAULT_PAGINATION_CLASS of the settings, LimitOffsetPagination.
\* paginate_queryset sets page_size on it as above and the paginator then
\* takes its own limit from the same parameter.
ListUsers ==
    /\ response = NoResponse
    /\ \E user \in users, limit \in LimitParams,
          view \in {"users", "subscriptions"} :
       /\ request' = ListRequest(view, user, limit)
       /\ response' = PageResponse(GetLimit(limit))
    /\ UNCHANGED <<follow, users, recipes, author, short_link, last_recipe_id,
                   recipe_ingredients, shopping_cart, requests, cart_items,
                   ingredients>>

\* ------------------------------------------------------------ subscriptions
SELF_FOLLOW == "cannot subscribe to yourself"
ALREADY_FOLLOWING == "already subscribed to this user"
NOT_FOLLOWING == "not subscribed to this user"

\* A request to users/<id>/subscribe/ : the view that answers it and the
\* user that the id names.
FollowRequest(view, method, user, following) ==
    [view |-> view, method |-> method, user |-> user, recipe |-> 0,
     recipe_ids |-> NoParam, format |-> NoParam, following |-> following]

FollowRow(user, following) == [user |-> user, following |-> following]

\* Follow.objects.filter(user=user, following=following).exists()
IsFollowing(user, following) ==
    CopiesIn(FollowRow(user, following), follow) > 0

\* Faulty variant of FollowCreate: the request.user == following check is
\* missing.
FollowCreate_NoSelfCheck ==
    /\ response = NoResponse
    /\ \E user \in users, following \in Users :
       /\ request' = FollowRequest("FollowViewSet", "POST", user, following)
       /\ IF following \notin users
          THEN /\ response' = ErrorResponse(404, NOT_FOUND)
               /\ UNCHANGED follow
          ELSE IF IsFollowing(user, following)
          THEN /\ response' = ErrorResponse(400, ALREADY_FOLLOWING)
               /\ UNCHANGED follow
          ELSE /\ follow' = follow (+) SetToBag({FollowRow(user, following)})
               /\ response' = ErrorResponse(201, "")
    /\ UNCHANGED <<users, recipes, author, short_link, last_recipe_id,
                   recipe_ingredients, shopping_cart, requests, cart_items,
                   ingredients>>

\* FollowViewSet.create, POST users/<id>/subscribe/ : 404 for an unknown
\* user, 400 for oneself, 400 if the subscription exists, else the row is
\* created (201).
FollowCreate ==
    /\ response = NoResponse
    /\ \E user \in users, following \in Users :
       /\ request' = FollowRequest("FollowViewSet", "POST", user, following)
       /\ IF following \notin users
          THEN /\ response' = ErrorResponse(404, NOT_FOUND)
               /\ UNCHANGED follow
          ELSE IF user = following
          THEN /\ response' = ErrorResponse(400, SELF_FOLLOW)
               /\ UNCHANGED follow
          ELSE IF IsFollowing(user, following)
          THEN /\ response' = ErrorResponse(400, ALREADY_FOLLOWING)
               /\ UNCHANGED follow
          ELSE /\ follow' = follow (+) SetToBag({FollowRow(user, following)})
               /\ response' = ErrorResponse(201, "")
    /\ UNCHANGED <<users, recipes, author, short_link, last_recipe_id,
                   recipe_ingredients, shopping_cart, requests, cart_items,
                   ingredients>>

\* FollowViewSet.destroy, DELETE users/<id>/subscribe/ : 404 for an unknown
\* user, 400 if there is no subscription, else the row is deleted (204).
FollowDestroy ==
    /\ response = NoResponse
    /\ \E user \in users, following \in Users :
       /\ request' = FollowRequest("FollowViewSet", "DELETE", user, following)
       /\ IF following \notin users
          THEN /\ response' = ErrorResponse(404, NOT_FOUND)
               /\ UNCHANGED follow
          ELSE IF ~IsFollowing(user, following)
          THEN /\ response' = ErrorResponse(400, NOT_FOLLOWING)
               /\ UNCHANGED follow
          ELSE /\ follow' = follow (-) SetToBag({FollowRow(user, following)})
               /\ response' = ErrorResponse(204, "")
    /\ UNCHANGED <<users, recipes, author, short_link, last_recipe_id,
                   recipe_ingredients, shopping_cart, requests, cart_items,
                   ingredients>>

\* UserViewSet.subscribe. POST builds FollowSerializer(data={}) and calls
\* is_valid(raise_exception=True): the serializer's writable fields
\* is_subscribed and avatar are required and data has neither, so every POST
\* for a known user is answered 400 and nothing is saved. DELETE gets the
\* row and deletes it (204), or answers 400 on Follow.DoesNotExist.
Subscribe ==
    /\ response = NoResponse
    /\ \E method \in {"POST", "DELETE"}, user \in users, following \in Users :
       /\ request' = FollowRequest("UserViewSet", method, user, following)
       /\ IF following \notin users
          THEN /\ response' = ErrorResponse(404, NOT_FOUND)
               /\ UNCHANGED follow
          ELSE IF method = "POST"
          THEN /\ response' = ErrorResponse(400, VALIDATION_ERROR)
               /\ UNCHANGED follow
          ELSE IF ~IsFollowing(user, following)
          THEN /\ response' = ErrorResponse(400, NOT_FOLLOWING)
               /\ UNCHANGED follow
          ELSE /\ follow' = follow (-) SetToBag({FollowRow(user, following)})
               /\ response' = ErrorResponse(204, "")
    /\ UNCHANGED <<users, recipes, author, short_link, last_recipe_id,
                   recipe_ingredients, shopping_cart, requests, cart_items,
                   ingredients>>

\* The response has been sent: the worker takes the next request.
Finish ==
    /\ response # NoResponse
    /\ response' = NoResponse
    /\ request' = NoRequest
    /\ cart_items' = <<>>
    /\ ingredients' = <<>>
    /\ UNCHANGED <<follow, users, recipes, author, short_link, last_recipe_id, recipe_ingredients, shopping_cart, requests>>

\* ----------------------------------------- shopping_cart, step by step
\* The same view run by several workers at once: every database query is one
\* step, and the steps of different requests interleave.
NumWorkers == 2

Workers == 1..NumWorkers

Idle == [pc |-> "idle", method |-> "", user |-> "", recipe |-> 0,
         alive |-> FALSE, status |-> 0, data |-> <<>>]

Step(req, pc) == [req EXCEPT !.pc = pc]

Done(req, status) == [req EXCEPT !.pc = "done", !.status = status,
                                 !.alive = FALSE]

\* recipe = self.get_object(): 404 for an unknown recipe.
Receive(w) ==
    /\ requests[w].pc = "idle"
    /\ \E method \in {"POST", "DELETE"}, user \in users, recipe \in RecipeIds :
          LET req == [Idle EXCEPT !.method = method, !.user = user,
                                  !.recipe = recipe]
          IN  requests' = [requests EXCEPT ![w] =
                  IF recipe \notin recipes THEN Done(req, 404)
                  ELSE IF method = "POST" THEN Step(req, "exists")
                  ELSE Step(req, "first")]
    /\ UNCHANGED <<follow, users, recipes, author, short_link, last_recipe_id, recipe_ingredients, shopping_cart, request,
                   cart_items, ingredients, response>>

\* if ShoppingCart.objects.filter(...).exists(): return 400
CartExists(w) ==
    LET req == requests[w]
    IN  /\ req.pc = "exists"
        /\ requests' = [requests EXCEPT ![w] =
               IF InCart(req.user, req.recipe) THEN Done(req, 400)
               ELSE Step(req, "create")]
        /\ UNCHANGED <<follow, users, recipes, author, short_link, last_recipe_id, recipe_ingredients, shopping_cart, request,
                       cart_items, ingredients, response>>

\* ShoppingCart.objects.create(...): the INSERT either stores the row (201)
\* or breaks the constraint, and the IntegrityError is not caught (500).
CartCreate(w) ==
    LET req == requests[w]
        row == CartRow(req.user, req.recipe)
    IN  /\ req.pc = "create"
        /\ IF UniqueShoppingCart(row)
           THEN /\ shopping_cart' = shopping_cart (+) SetToBag({row})
                /\ requests' = [requests EXCEPT ![w] = Done(req, 201)]
           ELSE /\ requests' = [requests EXCEPT ![w] = Done(req, 500)]
                /\ UNCHANGED shopping_cart
        /\ UNCHANGED <<follow, users, recipes, author, short_link, last_recipe_id, recipe_ingredients, request, cart_items,
                       ingredients, response>>

\* shopping_cart = ShoppingCart.objects.filter(...).first(): 400 if None.
CartFirst(w) ==
    LET req == requests[w]
    IN  /\ req.pc = "first"
        /\ requests' = [requests EXCEPT ![w] =
               IF InCart(req.user, req.recipe)
               THEN [Step(req, "delete") EXCEPT !.alive = TRUE]
               ELSE Done(req, 400)]
        /\ UNCHANGED <<follow, users, recipes, author, short_link, last_recipe_id, recipe_ingredients, shopping_cart, request,
                       cart_items, ingredients, response>>

\* shopping_cart.delete() deletes the fetched row by primary key: nothing is
\* deleted if another request has deleted that row since (alive is then
\* FALSE, also when a new row for the same pair has been stored meanwhile).
CartDelete(w) ==
    LET req == requests[w]
        row == CartRow(req.user, req.recipe)
        SameRow(v) == /\ requests[v].pc = "delete"
                      /\ requests[v].user = req.user
                      /\ requests[v].recipe = req.recipe
    IN  /\ req.pc = "delete"
        /\ IF req.alive
           THEN /\ shopping_cart' = shopping_cart (-) SetToBag({row})
                /\ requests' = [v \in Workers |->
                       IF v = w THEN Done(req, 204)
                       ELSE IF SameRow(v)
                       THEN [requests[v] EXCEPT !.alive = FALSE]
                       ELSE requests[v]]
           ELSE /\ requests' = [requests EXCEPT ![w] = Done(req, 204)]
                /\ UNCHANGED shopping_cart
        /\ UNCHANGED <<follow, users, recipes, author, short_link, last_recipe_id, recipe_ingredients, request, cart_items,
                       ingredients, response>>

\* The response has been sent: the worker takes the next request.
Respond(w) ==
    /\ requests[w].pc = "done"
    /\ requests' = [requests EXCEPT ![w] = Idle]
    /\ UNCHANGED <<follow, users, recipes, author, short_link, last_recipe_id, recipe_ingredients, shopping_cart, request,
                   cart_items, ingredients, response>>

\* ------------------------------------------------ recipe writes, step by step
\* RecipeSerializer.create and update run by several workers. No transaction
\* surrounds them, so every database statement is one step and the steps of
\* different requests, and the reads of exports, interleave.

\* The ingredients lists that the interleaved writes submit: two that pass
\* validation and one that does not.
SomeIngredientsData ==
    {<<Item(3, 1)>>, <<Item(2, 1), Item(1, 1)>>, <<Item(3, 0)>>}

\* get_object (404), the serializer's validation (400) and perform_update's
\* check of the author (403); what passes goes on to create() or update()
\* with its validated data.
ReceiveWrite(w) ==
    /\ requests[w].pc = "idle"
    /\ \E method \in {"POST", "PATCH"}, user \in users, recipe \in RecipeIds,
          has_ingredients \in BOOLEAN, data \in SomeIngredientsData :
          LET req == [Idle EXCEPT !.method = method, !.user = user,
                                  !.recipe = IF method = "POST" THEN 0
                                             ELSE recipe]
              valid == [req EXCEPT !.data = data]
          IN  requests' = [requests EXCEPT ![w] =
                  IF method = "PATCH" /\ recipe \notin recipes
                  THEN Done(req, 404)
                  ELSE IF ~has_ingredients \/ ~ValidIngredients(data)
                  THEN Done(req, 400)
                  ELSE IF method = "PATCH" /\ author[recipe] # user
                  THEN Done(req, 403)
                  ELSE IF method = "POST" THEN Step(valid, "create")
                  ELSE Step(valid, "save")]
    /\ UNCHANGED <<follow, users, recipes, author, short_link, last_recipe_id, recipe_ingredients,
                   shopping_cart, request, cart_items, ingredients, response>>

\* recipe = Recipe.objects.create(**validated_data), first statement: the
\* INSERT of Recipe.save stores the row with the next id, the requesting user
\* as its author and an empty short_link, unless a row with an empty
\* short_link is there, which breaks the unique index (IntegrityError, 500).
RecipeCreate(w) ==
    LET req == requests[w]
        id  == last_recipe_id + 1
    IN  /\ req.pc = "create"
        /\ id \in RecipeIds
        /\ IF \E r \in recipes : short_link[r] = <<>>
           THEN /\ requests' = [requests EXCEPT ![w] =
                       Done([req EXCEPT !.data = <<>>], 500)]
                /\ UNCHANGED <<recipes, author, short_link, last_recipe_id>>
           ELSE /\ last_recipe_id' = id
                /\ recipes' = recipes \cup {id}
                /\ author' = [r \in recipes \cup {id} |->
                                 IF r = id THEN req.user ELSE author[r]]
                /\ short_link' = [r \in recipes \cup {id} |->
                                     IF r = id THEN <<>> ELSE short_link[r]]
                /\ requests' = [requests EXCEPT ![w] =
                       Step([req EXCEPT !.recipe = id], "short_link")]
        /\ UNCHANGED <<follow, users, recipe_ingredients, shopping_cart, request,
                       cart_items, ingredients, response>>

\* Recipe.save, second statement: the short_link is empty, so it is set to
\* generate_hash(self.id) by an UPDATE of the row.
ShortLinkUpdate(w) ==
    LET req == requests[w]
    IN  /\ req.pc = "short_link"
        /\ short_link' = [short_link EXCEPT ![req.recipe] =
                             generate_hash(req.recipe)]
        /\ requests' = [requests EXCEPT ![w] = Step(req, "tags")]
        /\ UNCHANGED <<follow, users, recipes, author, last_recipe_id,
                       recipe_ingredients, shopping_cart, request, cart_items,
                       ingredients, response>>

\* instance.save(): the fields of the row are written, none of which is part
\* of this model; the short_link is set already and is left alone.
RecipeSave(w) ==
    /\ requests[w].pc = "save"
    /\ requests' = [requests EXCEPT ![w] = Step(requests[w], "tags")]
    /\ UNCHANGED <<follow, users, recipes, author, short_link, last_recipe_id, recipe_ingredients,
                   shopping_cart, request, cart_items, ingredients, response>>

\* recipe.tags.set(tags_data): the tags are not part of this model.
TagsSet(w) ==
    /\ requests[w].pc = "tags"
    /\ requests' = [requests EXCEPT ![w] = Step(requests[w], "delete_lines")]
    /\ UNCHANGED <<follow, users, recipes, author, short_link, last_recipe_id, recipe_ingredients,
                   shopping_cart, request, cart_items, ingredients, response>>

\* recipe.recipe_ingredients.all().delete()
LinesDelete(w) ==
    LET req == requests[w]
    IN  /\ req.pc = "delete_lines"
        /\ recipe_ingredients' =
              {ri \in recipe_ingredients : ri.recipe # req.recipe}
        /\ requests' = [requests EXCEPT ![w] = Step(req, "bulk_create")]
        /\ UNCHANGED <<follow, users, recipes, author, short_link, last_recipe_id, shopping_cart,
                       request, cart_items, ingredients, response>>

\* RecipeIngredient.objects.bulk_create([...]): one INSERT, which stores all
\* the lines or, if one of them breaks unique_recipe_ingredient, none; the
\* IntegrityError is not caught (500).
LinesBulkCreate(w) ==
    LET req  == requests[w]
        rows == {[recipe |-> req.recipe, ingredient |-> req.data[i].id,
                  amount |-> req.data[i].amount] : i \in 1..Len(req.data)}
    IN  /\ req.pc = "bulk_create"
        /\ IF \E row \in rows, ri \in recipe_ingredients :
                 ri.recipe = row.recipe /\ ri.ingredient = row.ingredient
           THEN /\ requests' = [requests EXCEPT ![w] =
                       Done([req EXCEPT !.data = <<>>], 500)]
                /\ UNCHANGED recipe_ingredients
           ELSE /\ recipe_ingredients' = recipe_ingredients \cup rows
                /\ requests' = [requests EXCEPT ![w] =
                       Done([req EXCEPT !.data = <<>>],
                            IF req.method = "POST" THEN 201 ELSE 200)]
        /\ UNCHANGED <<follow, users, recipes, author, short_link, last_recipe_id, shopping_cart,
                       request, cart_items, ingredients, response>>

\* -------------------------------------------------------------- behaviours
Init ==
    /\ users = Users
    /\ follow = EmptyBag
    /\ recipes = {}
    /\ author = <<>>
    /\ short_link = <<>>
    /\ last_recipe_id = 0
    /\ recipe_ingredients = {}
    /\ shopping_cart = EmptyBag
    /\ requests = [w \in Workers |-> Idle]
    /\ request = NoRequest
    /\ cart_items = <<>>
    /\ ingredients = <<>>
    /\ response = NoResponse

Next ==
    \/ CreateRecipe
    \/ ShoppingCartPost
    \/ ShoppingCartDelete
    \/ Download
    \/ Finish

Spec == Init /\ [][Next]_vars

\* The life of recipes, users and carts, with exports in between. The export
\* parameters are fewer here: no filter, one recipe, both recipes; txt and pdf.
SomeRecipeIds == {NoParam, <<"1">>, <<"2", ",", "1">>}

SomeFormats == {NoParam, <<"p", "d", "f">>}

NextRecipes ==
    \/ CreateRecipeBy(Users)
    \/ UpdateRecipe
    \/ DeleteRecipe
    \/ DeleteUser
    \/ ShoppingCartPost
    \/ ShoppingCartDelete
    \/ DownloadWith(SomeRecipeIds, SomeFormats)
    \/ Finish

SpecRecipes == Init /\ [][NextRecipes]_vars

\* Subscriptions next to recipes, and the deletion of users, which removes
\* the subscriptions and the recipes of the user.
NextFollow ==
    \/ CreateRecipeBy(Users)
    \/ FollowCreate
    \/ FollowDestroy
    \/ Subscribe
    \/ DeleteUser
    \/ Finish

SpecFollow == Init /\ [][NextFollow]_vars

\* Recipes and their short links.
NextLinks ==
    \/ CreateRecipeBy(Users)
    \/ UpdateRecipe
    \/ DeleteRecipe
    \/ GetLink
    \/ RetrieveByShortLink
    \/ ShortLinkRedirect
    \/ Finish

SpecLinks == Init /\ [][NextLinks]_vars

\* The paginated lists.
NextPages ==
    \/ ListRecipes
    \/ ListUsers
    \/ Finish

SpecPages == Init /\ [][NextPages]_vars

\* Two users, each with a recipe of their own, their carts and their exports.
\* The recipes share one ingredient and have one each that the other lacks.
ComparedIds == {NoParam, <<"1">>, <<"2", ",", "1">>, <<"a">>}

ComparedFormats ==
    {NoParam, <<"p", "d", "f">>, <<"c", "s", "v">>, <<"x", "m", "l">>}

InitOwn ==
    /\ users = Users
    /\ follow = EmptyBag
    /\ recipes = {1, 2}
    /\ author = (1 :> "u1") @@ (2 :> "u2")
    /\ short_link = [r \in {1, 2} |-> generate_hash(r)]
    /\ last_recipe_id = 2
    /\ recipe_ingredients =
          {[recipe |-> 1, ingredient |-> 1, amount |-> MaxAmount],
           [recipe |-> 1, ingredient |-> 3, amount |-> 1],
           [recipe |-> 2, ingredient |-> 2, amount |-> 1],
           [recipe |-> 2, ingredient |-> 3, amount |-> MaxAmount]}
    /\ shopping_cart = EmptyBag
    /\ requests = [w \in Workers |-> Idle]
    /\ request = NoRequest
    /\ cart_items = <<>>
    /\ ingredients = <<>>
    /\ response = NoResponse

NextOwn ==
    \/ ShoppingCartPost
    \/ ShoppingCartDelete
    \/ DeleteRecipe
    \/ DownloadWith(ComparedIds, ComparedFormats)
    \/ Finish

SpecOwn == InitOwn /\ [][NextOwn]_vars

\* The pdf renderer on long lists: the dict it is given has 1 to MaxEntries
\* entries, named in base three with the letters a, b, c and inserted in the
\* order of the numbers, which is not the order of the names.
MaxEntries == 80

RECURSIVE LongName(_)
LongName(i) ==
    LET letter == <<"a", "b", "c">>[(i % 3) + 1]
    IN  IF i < 3 THEN <<letter>> ELSE Append(LongName(i \div 3), letter)

LongDict(n) ==
    [i \in 1..n |-> [key |-> <<LongName(i), <<"g">>>>,
                     total |-> 1 + (i % MaxAmount)]]

InitPdf ==
    /\ users = Users
    /\ follow = EmptyBag
    /\ recipes = {}
    /\ author = <<>>
    /\ short_link = <<>>
    /\ last_recipe_id = 0
    /\ recipe_ingredients = {}
    /\ shopping_cart = EmptyBag
    /\ requests = [w \in Workers |-> Idle]
    /\ request = NoRequest
    /\ cart_items = <<>>
    /\ ingredients \in {LongDict(n) : n \in 1..MaxEntries}
    /\ response = NoResponse

\* self._generate_pdf_response(ingredients)
GeneratePdf ==
    /\ response = NoResponse
    /\ response' = _generate_pdf_response(ingredients)
    /\ UNCHANGED <<follow, users, recipes, author, short_link, last_recipe_id, recipe_ingredients,
                   shopping_cart, requests, request, cart_items, ingredients>>

\* The file has been sent; the dict is still there for the next rendering.
SendPdf ==
    /\ response # NoResponse
    /\ response' = NoResponse
    /\ UNCHANGED <<follow, users, recipes, author, short_link, last_recipe_id, recipe_ingredients,
                   shopping_cart, requests, request, cart_items, ingredients>>

NextPdf == GeneratePdf \/ SendPdf

SpecPdf == InitPdf /\ [][NextPdf]_vars

\* Concurrent shopping_cart requests against a database that holds recipe 1.
InitCart ==
    /\ users = Users
    /\ follow = EmptyBag
    /\ recipes = {1}
    /\ author = [r \in {1} |-> "u1"]
    /\ short_link = [r \in {1} |-> generate_hash(r)]
    /\ last_recipe_id = 1
    /\ recipe_ingredients =
          {[recipe |-> 1, ingredient |-> 1, amount |-> MaxAmount],
           [recipe |-> 1, ingredient |-> 3, amount |-> 1]}
    /\ shopping_cart = EmptyBag
    /\ requests = [w \in Workers |-> Idle]
    /\ request = NoRequest
    /\ cart_items = <<>>
    /\ ingredients = <<>>
    /\ response = NoResponse

NextCart ==
    \E w \in Workers :
        \/ Receive(w)
        \/ CartExists(w)
        \/ CartCreate(w)
        \/ CartFirst(w)
        \/ CartDelete(w)
        \/ Respond(w)

SpecCart == InitCart /\ [][NextCart]_vars

\* Concurrent recipe writes and exports against a database that holds
\* recipe 1, which is in the cart of u2.
InitWrites ==
    /\ users = Users
    /\ follow = EmptyBag
    /\ recipes = {1}
    /\ author = [r \in {1} |-> "u1"]
    /\ short_link = [r \in {1} |-> generate_hash(r)]
    /\ last_recipe_id = 1
    /\ recipe_ingredients =
          {[recipe |-> 1, ingredient |-> 1, amount |-> MaxAmount],
           [recipe |-> 1, ingredient |-> 3, amount |-> 1]}
    /\ shopping_cart = SetToBag({CartRow("u2", 1)})
    /\ requests = [w \in Workers |-> Idle]
    /\ request = NoRequest
    /\ cart_items = <<>>
    /\ ingredients = <<>>
    /\ response = NoResponse

NextWrites ==
    \/ \E w \in Workers :
          \/ ReceiveWrite(w)
          \/ RecipeCreate(w)
          \/ ShortLinkUpdate(w)
          \/ RecipeSave(w)
          \/ TagsSet(w)
          \/ LinesDelete(w)
          \/ LinesBulkCreate(w)
          \/ Respond(w)
    \/ DownloadWith({NoParam}, {NoParam})
    \/ Finish

SpecWrites == InitWrites /\ [][NextWrites]_vars

\* ================================================================= claims
\* What the request being answered asked for, read off the database.
IsDownload == request.view = "download_shopping_cart"

\* The download went past the parsing of recipe_ids.
Aggregated == IsDownload /\ response.error # INVALID_RECIPE_IDS

HasFilter == request.recipe_ids # NoParam /\ request.recipe_ids # <<>>

FilterIds == ParseRecipeIds(request.recipe_ids).ids

\* The recipes of the requesting user's cart items that are in scope.
InScope(r) ==
    /\ InCart(request.user, r)
    /\ HasFilter => r \in FilterIds

LinesInScope == {ri \in recipe_ingredients : InScope(ri.recipe)}

KeyOf(ri) == <<Ingredient[ri.ingredient].name,
               Ingredient[ri.ingredient].measurement_unit>>

AllKeys == {<<Ingredient[g].name, Ingredient[g].measurement_unit>> :
              g \in IngredientIds}

RECURSIVE SumAmounts(_)
SumAmounts(S) ==
    IF S = {} THEN 0
    ELSE LET ri == CHOOSE x \in S : TRUE
         IN  ri.amount + SumAmounts(S \ {ri})

\* ingredients[key] as the renderers read it, 0 for a key that was never set.
DictTotal(key) ==
    IF \E i \in 1..Len(ingredients) : ingredients[i].key = key
    THEN ingredients[CHOOSE i \in 1..Len(ingredients) :
                        ingredients[i].key = key].total
    ELSE 0

\* C1: for every cart and every recipe_ids filter, the total computed for a
\* (name, unit) key is the sum of the amounts of the ingredient lines with
\* that name and unit in the recipes of the user's cart items in scope.
C1_TotalsAreSums ==
    Aggregated =>
        \A key \in AllKeys :
            DictTotal(key) = SumAmounts({ri \in LinesInScope : KeyOf(ri) = key})

\* A filtered download whose total for one key adds two different amounts
\* that come from two recipes.
C1_Witness ==
    /\ Aggregated
    /\ HasFilter
    /\ \E a, b \in LinesInScope :
          /\ a.recipe # b.recipe
          /\ KeyOf(a) = KeyOf(b)
          /\ a.amount # b.amount
          /\ DictTotal(KeyOf(a)) = a.amount + b.amount

\* C2: the mapping has exactly one entry per distinct (name, unit) pair of the
\* in-scope ingredient lines, and no entry for any other pair.
C2_OneEntryPerPair ==
    Aggregated =>
        LET pairs == {KeyOf(ri) : ri \in LinesInScope}
        IN  /\ {ingredients[i].key : i \in 1..Len(ingredients)} = pairs
            /\ Len(ingredients) = Cardinality(pairs)

\* Two recipes in scope share a pair, and the mapping has fewer entries than
\* there are lines.
C2_Witness ==
    /\ Aggregated
    /\ \E a, b \in LinesInScope : a.recipe # b.recipe /\ KeyOf(a) = KeyOf(b)
    /\ Len(ingredients) = Cardinality({KeyOf(ri) : ri \in LinesInScope})
    /\ Len(ingredients) < Cardinality(LinesInScope)
    /\ Len(ingredients) > 1

\* C3: with a recipe_ids filter the aggregation iterates exactly the user's
\* cart items whose recipe id is in the filter, without one (or with an empty
\* one) all of the user's cart items; an id that names no item of the cart is
\* left out and is no error.
C3_FilterSelectsCartItems ==
    Aggregated =>
        /\ {cart_items[i].recipe : i \in 1..Len(cart_items)}
             = {r \in RecipeIds : InScope(r)}
        /\ \A i \in 1..Len(cart_items) : cart_items[i].user = request.user
        /\ \A i, j \in 1..Len(cart_items) :
              cart_items[i] = cart_items[j] => i = j
        /\ response.status \in {200, 400}
        /\ response.status = 400
              => response.error \in {NO_INGREDIENTS, UNSUPPORTED_FORMAT}

\* The filter names a recipe that is in another user's cart only, next to one
\* of the user's own: the first is left out, the second is exported.
C3_Witness ==
    /\ Aggregated
    /\ HasFilter
    /\ \E r \in FilterIds \cap recipes :
          /\ ~InCart(request.user, r)
          /\ \E u \in Users : InCart(u, r)
    /\ cart_items # <<>>
    /\ response.status = 200

\* ------------------------------------------------ reading an export back
\* The last position at which pat occurs in s, 0 if it does not occur.
LastIndexOf(s, pat) ==
    LET hits == {i \in 1..(Len(s) - Len(pat) + 1) :
                   SubSeq(s, i, i + Len(pat) - 1) = pat}
    IN  IF hits = {} THEN 0 ELSE CHOOSE i \in hits : \A j \in hits : j <= i

\* An entry line "- name (unit) <em dash> amount" read back as
\* <<name, unit, amount>>: the amount follows the last ") <em dash> ", the
\* unit the last " (" before it.
ParseEntry(line) ==
    LET k    == LastIndexOf(line, <<")", " ", "U+2014", " ">>)
        rest == SubSeq(line, 3, k - 1)
        m    == LastIndexOf(rest, <<" ", "(">>)
    IN  <<SubSeq(rest, 1, m - 1), SubSeq(rest, m + 2, Len(rest)),
          SubSeq(line, k + 4, Len(line))>>

\* The n-th smallest element of a set of numbers.
Nth(P, n) == CHOOSE p \in P : Cardinality({q \in P : q <= p}) = n

\* The pieces of s that end at the positions P, the characters at P dropped.
Pieces(s, P) ==
    [n \in 1..Cardinality(P) |->
        SubSeq(s, IF n = 1 THEN 1 ELSE Nth(P, n - 1) + 1, Nth(P, n) - 1)]

\* The triples of a txt body: one per line after the title and the blank line.
TxtTriples(body) ==
    LET lines == Pieces(body, {i \in 1..Len(body) : body[i] = "\n"})
    IN  [i \in 1..(Len(lines) - 2) |-> ParseEntry(lines[i + 2])]

\* A csv reader for the excel dialect. The fields of one row, with quoted
\* fields unquoted:
RECURSIVE CsvFields(_, _, _)
CsvFields(s, field, quoted) ==
    IF s = <<>> THEN <<field>>
    ELSE IF quoted
    THEN IF Head(s) = "\""
         THEN IF Len(s) > 1 /\ s[2] = "\""
              THEN CsvFields(Tail(Tail(s)), Append(field, "\""), TRUE)
              ELSE CsvFields(Tail(s), field, FALSE)
         ELSE CsvFields(Tail(s), Append(field, Head(s)), TRUE)
    ELSE IF Head(s) = "\"" THEN CsvFields(Tail(s), field, TRUE)
    ELSE IF Head(s) = "," THEN <<field>> \o CsvFields(Tail(s), <<>>, FALSE)
    ELSE IF Head(s) = "\r" THEN CsvFields(Tail(s), field, FALSE)
    ELSE CsvFields(Tail(s), Append(field, Head(s)), FALSE)

\* and the rows of a body: a row ends at a line feed that is outside quotes,
\* which is one with an even number of quote characters before it.
CsvRows(body) ==
    LET Quotes(i) == Cardinality({j \in 1..(i - 1) : body[j] = "\""})
        ends == {i \in 1..Len(body) : body[i] = "\n" /\ Quotes(i) % 2 = 0}
        rows == Pieces(body, ends)
    IN  [n \in 1..Len(rows) |-> CsvFields(rows[n], <<>>, FALSE)]

\* The triples of a csv body: its rows after the header row.
CsvTriples(body) == Tail(CsvRows(body))

\* The triples of a pdf: the strings drawn after the title, read back.
PdfTriples(canvas) ==
    LET drawn == SelectSeq(canvas, LAMBDA o : o.op = "drawString")
    IN  [i \in 1..(Len(drawn) - 1) |-> ParseEntry(drawn[i + 1].text)]

IsTxt == response.status = 200 /\ response.filename = "shopping_list.txt"
IsCsv == response.status = 200 /\ response.filename = "shopping_list.csv"
IsPdf == response.status = 200 /\ response.filename = "shopping_list.pdf"

\* The triples that the file being returned carries.
ExportedTriples ==
    IF IsTxt THEN TxtTriples(response.body)
    ELSE IF IsCsv THEN CsvTriples(response.body)
    ELSE PdfTriples(response.canvas)

\* ------------------------------------------------------------ C4: recipe_ids
DigitChars == {"0", "1", "2", "3", "4", "5", "6", "7", "8", "9"}

\* A non-negative integer literal: one or more digits and nothing else.
NonNegativeLiteral(token) ==
    token # <<>> /\ \A i \in 1..Len(token) : token[i] \in DigitChars

\* What Python's int() accepts: spaces, an optional sign, one or more digits,
\* spaces.
IntLiteral(token) ==
    \E i, j \in 1..Len(token) :
        /\ i <= j
        /\ \A k \in 1..(i - 1) : token[k] = " "
        /\ \A k \in (j + 1)..Len(token) : token[k] = " "
        /\ \/ NonNegativeLiteral(SubSeq(token, i, j))
           \/ /\ token[i] \in {"+", "-"}
              /\ NonNegativeLiteral(SubSeq(token, i + 1, j))

FilterTokens == Split(request.recipe_ids, ",")

RejectedBeforeAnyRead ==
    /\ response = ErrorResponse(400, INVALID_RECIPE_IDS)
    /\ cart_items = <<>>
    /\ ingredients = <<>>

\* C4 as stated: a recipe_ids value with a token that is not a non-negative
\* integer literal fails with the 400 invalid-format error before anything is
\* read. The download of recipe_ids=-1 refutes it.
C4_Original ==
    (IsDownload /\ HasFilter
        /\ \E i \in 1..Len(FilterTokens) : ~NonNegativeLiteral(FilterTokens[i]))
    => RejectedBeforeAnyRead

\* C4, amended: a recipe_ids value with a token that int() does not accept
\* fails with the 400 invalid-format error before anything is read, no token
\* being dropped; a signed or space-padded number is accepted as an id.
C4_BadTokenFailsRequest ==
    /\ (IsDownload /\ HasFilter
          /\ \E i \in 1..Len(FilterTokens) : ~IntLiteral(FilterTokens[i]))
       => RejectedBeforeAnyRead
    /\ (IsDownload /\ HasFilter
          /\ \A i \in 1..Len(FilterTokens) : IntLiteral(FilterTokens[i]))
       => response.error # INVALID_RECIPE_IDS

\* A filter with one good token, naming a recipe of the user's cart, and one
\* bad token is rejected as a whole.
C4_Witness ==
    /\ IsDownload
    /\ HasFilter
    /\ \E i, j \in 1..Len(FilterTokens) :
          /\ ~IntLiteral(FilterTokens[i])
          /\ NonNegativeLiteral(FilterTokens[j])
          /\ \E r \in RecipeIds :
                InCart(request.user, r) /\ FilterTokens[j] = Str(r)
    /\ RejectedBeforeAnyRead

\* -------------------------------------------------------- C5, C6, C9: format
UpperOf(c) == CASE c = "t" -> "T" [] c = "x" -> "X" [] c = "p" -> "P"
                [] c = "d" -> "D" [] c = "f" -> "F" [] c = "c" -> "C"
                [] c = "s" -> "S" [] c = "v" -> "V" [] OTHER -> c

\* text is word up to the case of its letters.
SameIgnoringCase(text, word) ==
    /\ Len(text) = Len(word)
    /\ \A i \in 1..Len(word) : text[i] \in {word[i], UpperOf(word[i])}

\* The format that the request selects, 'txt' when it names none.
Selects(word) ==
    IF request.format = NoParam THEN word = <<"t", "x", "t">>
    ELSE SameIgnoringCase(request.format, word)

SupportedFormat == \E word \in {<<"t", "x", "t">>, <<"p", "d", "f">>, <<"c", "s", "v">>} : Selects(word)

NoFile == response.body = <<>> /\ response.canvas = <<>>

LexLess(s, t) ==
    \E k \in 1..Len(t) :
        /\ \A i \in 1..(k - 1) : i <= Len(s) /\ s[i] = t[i]
        /\ \/ k = Len(s) + 1
           \/ k <= Len(s) /\ Ord(s[k]) < Ord(t[k])

\* (name, unit) of a comes before (name, unit) of b: name first, then unit.
KeyBefore(a, b) ==
    \/ LexLess(a[1], b[1])
    \/ a[1] = b[1] /\ LexLess(a[2], b[2])

C10_FormatsAgree ==
    (Aggregated /\ ingredients # <<>>)
    => LET txt == TxtTriples(_generate_txt_response(ingredients).body)
           csv == CsvTriples(_generate_csv_response(ingredients).body)
           pdf == PdfTriples(_generate_pdf_response(ingredients).canvas)
       IN  /\ txt = csv
           /\ txt = pdf
           /\ Len(txt) = Len(ingredients)
           /\ \A i \in 1..Len(txt) : \E j \in 1..Len(ingredients) :
                 txt[i] = <<ingredients[j].key[1], ingredients[j].key[2],
                            Str(ingredients[j].total)>>
           /\ response.status = 200 => ExportedTriples = txt

\* A txt file of three entries, one of them with a name that holds " (" and a
\* comma, which the csv export has to quote.
C10_Witness ==
    /\ IsTxt
    /\ Len(ingredients) = 3
    /\ \E i \in 1..3 : ingredients[i].key[1] = Ingredient[1].name
    /\ Len(TxtTriples(response.body)) = 3

\* ------------------------------------------------------- C11: pdf pagination
\* ops[i] draws an entry line at height y.
DrawsAt(ops, i, y) ==
    /\ i <= Len(ops)
    /\ ops[i].op = "drawString"
    /\ ops[i].x = PDF_START_X
    /\ ops[i].y = y

\* C11: in the pdf the first entry is drawn at the title-relative Y; after an
\* entry the cursor is one line height lower, and the next entry is drawn at
\* the cursor on the same page unless the cursor is below the minimum Y, in
\* which case, and in no other, a new page is started first and the entry is
\* drawn at the top-margin Y; after the last entry the document ends with no
\* further page. The pages are one more than the entries found below the
\* threshold.
C11_PaginationBySpace ==
    IsPdf =>
      LET ops     == response.canvas
          entries == {i \in 4..Len(ops) : ops[i].op = "drawString"}
          cursor(i) == ops[i].y - PDF_LINE_HEIGHT
          breaks  == {i \in entries : i + 1 < Len(ops) /\ cursor(i) < PDF_MIN_Y}
      IN  /\ DrawsAt(ops, 4, PDF_TITLE_Y)
          /\ Cardinality(entries) = Len(ingredients)
          /\ ops[Len(ops)] = ShowPage
          /\ \A i \in entries :
                IF i + 1 = Len(ops) THEN TRUE
                ELSE IF cursor(i) < PDF_MIN_Y
                THEN /\ ops[i + 1] = ShowPage
                     /\ ops[i + 2].op = "setFont"
                     /\ DrawsAt(ops, i + 3, PDF_START_Y)
                ELSE DrawsAt(ops, i + 1, cursor(i))
          /\ Cardinality({i \in 1..Len(ops) : ops[i] = ShowPage})
                = 1 + Cardinality(breaks)

\* A list long enough for three pages: two page breaks and the end.
C11_Witness ==
    /\ IsPdf
    /\ Len(ingredients) > 75
    /\ Cardinality({i \in 1..Len(response.canvas) :
                      response.canvas[i] = ShowPage}) = 3

\* ------------------------------------------------- C12, C13: txt and csv
\* A number below one hundred in decimal digits.
Decimal(n) ==
    LET digit(k) == <<"0", "1", "2", "3", "4", "5", "6", "7", "8", "9">>[k + 1]
    IN  IF n < 10 THEN <<digit(n)>> ELSE <<digit(n \div 10), digit(n % 10)>>

\* The parts of an aggregated entry as the files show them.
Shown(entry) == <<entry.key[1], entry.key[2], Decimal(entry.total)>>

\* "- name (unit) <em dash> amount"
EntryLine(entry) ==
    <<"-", " ">> \o entry.key[1] \o <<" ", "(">> \o entry.key[2]
        \o <<")", " ", "U+2014", " ">> \o Decimal(entry.total)

\* C12: the txt body is the title line, one blank line, then exactly one line
\* "- name (unit) <em dash> amount" per aggregated entry, every line ended by
\* a newline, and nothing else.
C12_TxtLayout ==
    IsTxt =>
      LET body  == response.body
          lines == Pieces(body, {i \in 1..Len(body) : body[i] = "\n"})
      IN  /\ body[Len(body)] = "\n"
          /\ Len(lines) = Len(ingredients) + 2
          /\ lines[1] = <<"U+0421", "U+043F", "U+0438", "U+0441", "U+043E", "U+043A", " ", "U+043F", "U+043E", "U+043A", "U+0443", "U+043F", "U+043E", "U+043A", ":">>
          /\ lines[2] = <<>>
          /\ \A j \in 1..Len(ingredients) :
                Cardinality({i \in 3..Len(lines) :
                               lines[i] = EntryLine(ingredients[j])}) = 1

\* A txt file of three entries.
C12_Witness ==
    /\ IsTxt
    /\ Len(ingredients) = 3
    /\ Len(response.body) > 40

\* C13: the csv is the header row followed by exactly one row
\* [name, unit, amount] per aggregated entry, every row ended by CRLF: its
\* rows are the aggregated entries plus one.
C13_CsvLayout ==
    IsCsv =>
      LET body == response.body
          rows == CsvRows(body)
      IN  /\ SubSeq(body, Len(body) - 1, Len(body)) = <<"\r", "\n">>
          /\ Len(rows) = Len(ingredients) + 1
          /\ rows[1] = <<<<"U+0418", "U+043D", "U+0433", "U+0440", "U+0435", "U+0434", "U+0438", "U+0435", "U+043D", "U+0442">>,
                         <<"U+0415", "U+0434", "U+0438", "U+043D", "U+0438", "U+0446", "U+0430", " ", "U+0438", "U+0437", "U+043C", "U+0435", "U+0440", "U+0435", "U+043D", "U+0438", "U+044F">>,
                         <<"U+041A", "U+043E", "U+043B", "U+0438", "U+0447", "U+0435", "U+0441", "U+0442", "U+0432", "U+043E">>>>
          /\ \A j \in 1..Len(ingredients) :
                Cardinality({i \in 2..Len(rows) :
                               rows[i] = Shown(ingredients[j])}) = 1

\* A csv file of three entries, one with a name that has to be quoted.
C13_Witness ==
    /\ IsCsv
    /\ Len(ingredients) = 3
    /\ \E i \in 1..Len(response.body) : response.body[i] = "\""
    /\ Len(CsvRows(response.body)) = 4

\* ------------------------------------------------ C14: no dangling cart item
\* C14: in every state each cart item references an existing user and an
\* existing recipe, no ingredient line of a deleted recipe is left, and the
\* cart items an export has read are items of existing recipes.
C14_CartItemsReferenceRows ==
    /\ \A row \in DOMAIN shopping_cart :
          row.user \in users /\ row.recipe \in recipes
    /\ \A ri \in recipe_ingredients : ri.recipe \in recipes
    /\ \A i \in 1..Len(cart_items) : cart_items[i].recipe \in recipes

\* An export that names a deleted recipe and a recipe of the cart in its
\* filter: the file holds the lines of the recipe of the cart only.
C14_Witness ==
    /\ IsDownload
    /\ response.status = 200
    /\ \E gone \in FilterIds : gone <= last_recipe_id /\ gone \notin recipes
    /\ cart_items # <<>>
    /\ \A key \in {ingredients[j].key : j \in 1..Len(ingredients)} :
          \E ri \in recipe_ingredients :
             /\ InCart(request.user, ri.recipe)
             /\ KeyOf(ri) = key

\* ------------------------------------------------- C15: an export is a read
\* The tables: users, recipes with their authors and ids, ingredient lines
\* and cart items. The Ingredient table is fixed.
Database == <<users, recipes, author, last_recipe_id, recipe_ingredients,
              shopping_cart>>

\* C15: a download_shopping_cart request, whether it returns a file or one of
\* its 400 errors, leaves users, recipes, ingredient lines and cart items as
\* they were.
C15_DownloadChangesNothing ==
    [][(response = NoResponse /\ request'.view = "download_shopping_cart")
          => UNCHANGED Database]_vars

\* A file has been returned from a cart that holds items.
C15_Witness ==
    /\ IsDownload
    /\ response.status = 200
    /\ \E r \in recipes : InCart(request.user, r)
    /\ recipe_ingredients # {}

\* ------------------------------------------- C16: every export is computed anew
\* The aggregation of the lines that are in scope now, as a set of entries.
FreshEntries ==
    {[key |-> KeyOf(ri), total |-> SumAmounts({x \in LinesInScope :
                                       KeyOf(x) = KeyOf(ri)})] :
        ri \in LinesInScope}

\* C16: after any sequence of cart additions and removals, recipe updates and
\* deletions, the dict an export builds is the aggregation of the cart items
\* and ingredient lines as they are at that export, and of nothing else.
C16_ExportIsFresh ==
    Aggregated =>
        /\ Range(ingredients) = FreshEntries
        /\ Len(ingredients) = Cardinality(FreshEntries)

\* An export after recipe 1 was deleted by its author: the file is made of
\* the lines of recipe 2.
C16_Witness ==
    /\ IsDownload
    /\ response.status = 200
    /\ users = Users
    /\ recipes = {2}
    /\ ingredients # <<>>

\* ------------------------------------------------- C17: the export is stable
\* The orders in which the database can return the cart rows of the
\* requesting user and the ingredient lines.
CartOrders == Perms(CartRecipes(request.user))

LineOrders == Perms({ri.ingredient : ri \in recipe_ingredients})

\* What the request answers when the rows come in the given orders.
Answer(cart_order, line_order) ==
    BuildResponse(CollectIngredients(request.user, request.recipe_ids,
                                     cart_order, line_order),
                  request.format)

\* C17: a download with the same format and recipe_ids against the same
\* database gives the same output, whatever the orders in which the cart
\* rows and the ingredient lines are returned.
C17_SameOutputInAnyOrder ==
    IsDownload =>
        \A cart_order \in CartOrders, line_order \in LineOrders :
            Answer(cart_order, line_order) = response

\* A file of three entries for which another order of the rows fills the
\* dict in another order.
C17_Witness ==
    /\ IsDownload
    /\ response.status = 200
    /\ Len(ingredients) = 3
    /\ Len(cart_items) = 2
    /\ \E cart_order \in CartOrders, line_order \in LineOrders :
          CollectIngredients(request.user, request.recipe_ids, cart_order,
                             line_order).ingredients # ingredients

\* ------------------------------------------------ C18: the ingredient lines
\* The step answers a request that creates or updates a recipe.
RecipeWrite ==
    /\ response = NoResponse
    /\ request'.view = "recipes"
    /\ request'.method \in {"POST", "PATCH"}

\* The ingredients of the request have an amount below one or an ingredient
\* more than once.
BadLines(req) ==
    /\ req.has_ingredients
    /\ \/ \E i \in 1..Len(req.data) : req.data[i].amount < 1
       \/ \E i, j \in 1..Len(req.data) :
             i # j /\ req.data[i].id = req.data[j].id

\* C18: after any sequence of recipe create and update requests every stored
\* ingredient line has an amount of at least 1 and no two lines are of the
\* same recipe and ingredient; a request with an amount below 1 or with a
\* repeated ingredient is rejected and leaves recipes and lines as they were.
C18_LinesArePositiveAndUnique ==
    /\ [](/\ \A ri \in recipe_ingredients : ri.amount \in Nat /\ ri.amount >= 1
          /\ \A ri, rj \in recipe_ingredients :
                (ri.recipe = rj.recipe /\ ri.ingredient = rj.ingredient)
                => ri = rj)
    /\ [][(RecipeWrite /\ BadLines(request'))
             => /\ response'.status >= 400
                /\ UNCHANGED <<recipes, author, recipe_ingredients>>]_vars

\* The author's update with an amount of zero was rejected, and so the lines
\* of the recipe are still there.
C18_Witness ==
    /\ request.view = "recipes"
    /\ request.method = "PATCH"
    /\ request.recipe \in recipes
    /\ author[request.recipe] = request.user
    /\ \E i \in 1..Len(request.data) : request.data[i].amount < 1
    /\ response.status = 400
    /\ \E ri \in recipe_ingredients : ri.recipe = request.recipe

\* ------------------------------------------------- C19: totals are positive
\* The text is a decimal number of at least one: digits, the first not zero.
PositiveLiteral(text) ==
    /\ text # <<>>
    /\ \A i \in 1..Len(text) : text[i] \in DigitChars
    /\ text[1] # "0"

\* C19: when every stored ingredient line has an amount of at least 1, every
\* entry of a dict that reaches a renderer has an integer total of at least
\* 1, and so has every amount written to the file.
C19_TotalsAtLeastOne ==
    (response.status = 200 /\ \A ri \in recipe_ingredients : ri.amount >= 1)
    => /\ \A i \in 1..Len(ingredients) :
             ingredients[i].total \in Nat /\ ingredients[i].total >= 1
       /\ \A i \in 1..Len(ExportedTriples) :
             PositiveLiteral(ExportedTriples[i][3])

\* A file with an entry of one line of amount 1 and an entry that sums the
\* lines of two recipes.
C19_Witness ==
    /\ response.status = 200
    /\ \E i, j \in 1..Len(ingredients) :
          /\ ingredients[i].total = 1
          /\ ingredients[j].total > MaxAmount
    /\ Len(ExportedTriples) = Len(ingredients)

\* ---------------------------------------------- C20: the cart, one at a time
\* The step answers a shopping_cart request.
CartRequest == response = NoResponse /\ request'.view = "shopping_cart"

\* The rows that a cart table holds for a user and a recipe.
Held(cart, user, recipe) == CopiesIn(CartRow(user, recipe), cart)

\* C20: run one after the other, POST for a recipe that is not in the user's
\* cart stores exactly one cart item and returns 201; POST for a recipe in
\* the cart returns 400 and changes nothing; DELETE for a recipe in the cart
\* removes exactly that item and returns 204; DELETE for a recipe not in the
\* cart returns 400 and changes nothing; and no request changes what the
\* cart of another user, or the user's cart for another recipe, holds.
C20_CartIsASetToggle ==
    [][CartRequest =>
         LET user   == request'.user
             recipe == request'.recipe
             before == Held(shopping_cart, user, recipe)
             after  == Held(shopping_cart', user, recipe)
             status == response'.status
         IN  /\ \A u \in Users, r \in RecipeIds :
                   (u # user \/ r # recipe)
                   => Held(shopping_cart', u, r) = Held(shopping_cart, u, r)
             /\ UNCHANGED <<users, recipes, author, recipe_ingredients>>
             /\ recipe \notin recipes => status = 404 /\ after = before
             /\ (recipe \in recipes /\ request'.method = "POST") =>
                   IF before = 0
                   THEN status = 201 /\ after = 1
                   ELSE /\ response' = ErrorResponse(400, ALREADY_IN_CART)
                        /\ after = before
             /\ (recipe \in recipes /\ request'.method = "DELETE") =>
                   IF before > 0
                   THEN status = 204 /\ after = before - 1 /\ after = 0
                   ELSE /\ response' = ErrorResponse(400, NOT_IN_CART)
                        /\ after = 0]_vars

\* A recipe was removed from a cart: the user still holds another recipe and
\* another user still holds the removed one.
C20_Witness ==
    /\ request.view = "shopping_cart"
    /\ request.method = "DELETE"
    /\ response.status = 204
    /\ ~InCart(request.user, request.recipe)
    /\ \E r \in recipes : r # request.recipe /\ InCart(request.user, r)
    /\ \E u \in users : u # request.user /\ InCart(u, request.recipe)

\* ------------------------------------------- C21: the outcomes of a download
\* Every token of the recipe_ids filter, if there is one, is an integer.
ValidFilter ==
    HasFilter => \A i \in 1..Len(FilterTokens) : IntLiteral(FilterTokens[i])

\* The response is a file with one entry for every key of the lines in
\* scope: nothing of the aggregation is missing from it.
CompleteFile ==
    /\ response.status = 200
    /\ response = Render(ingredients, request.format)
    /\ Len(ExportedTriples) = Cardinality({KeyOf(ri) : ri \in LinesInScope})

C22_AddEndsCreatedOrRejected ==
    \A w \in Workers :
        (/\ requests[w].pc = "done"
         /\ requests[w].method = "POST"
         /\ requests[w].recipe \in recipes)
        => requests[w].status \in {201, 400}

\* ------------------------------------------------ C23: the pages of the pdf
\* The operations that draw entry lines: every drawString after the title.
EntryOps(ops) == {i \in 4..Len(ops) : ops[i].op = "drawString"}

\* The operations that end a page.
PageEnds(ops) == {i \in 1..Len(ops) : ops[i] = ShowPage}

\* The page, counted from 1, on which operation i draws.
PageOf(ops, i) == 1 + Cardinality({j \in PageEnds(ops) : j < i})

\* The entry lines drawn on page p.
EntriesOn(ops, p) == {i \in EntryOps(ops) : PageOf(ops, i) = p}

\* C23: in the pdf every aggregated entry is drawn exactly once, at a Y
\* between the minimum Y and the top-margin Y inclusive, and no page is
\* without an entry; with title Y 800, first entry Y 770, line height 20 and
\* minimum Y 50 the first page holds at most 37 entries and every following
\* page at most 38, so that n entries make 1 page if n <= 37 and
\* 1 + ceil((n - 37) / 38) pages otherwise.
C23_PageCapacity ==
    IsPdf =>
      LET ops   == response.canvas
          n     == Len(ingredients)
          pages == Cardinality(PageEnds(ops))
      IN  /\ PDF_START_Y = 800 /\ PDF_TITLE_Y = 770
          /\ PDF_LINE_HEIGHT = 20 /\ PDF_MIN_Y = 50
          /\ \A k \in 1..n :
                Cardinality({i \in EntryOps(ops) :
                               ops[i].text = EntryText(ingredients[k])}) = 1
          /\ Cardinality(EntryOps(ops)) = n
          /\ \A i \in EntryOps(ops) :
                PDF_MIN_Y <= ops[i].y /\ ops[i].y <= PDF_START_Y
          /\ \A p \in 1..pages :
                /\ EntriesOn(ops, p) # {}
                /\ Cardinality(EntriesOn(ops, p)) <= IF p = 1 THEN 37 ELSE 38
          /\ pages = IF n <= 37 THEN 1
                     ELSE 1 + ((n - 37) + 37) \div 38

\* 76 entries: a full first page of 37, a full second page of 38 and a third
\* page with the one entry that is left.
C23_Witness ==
    /\ IsPdf
    /\ Len(ingredients) = 76
    /\ Cardinality(EntriesOn(response.canvas, 1)) = 37
    /\ Cardinality(EntriesOn(response.canvas, 2)) = 38
    /\ Cardinality(EntriesOn(response.canvas, 3)) = 1

\* --------------------------------------- C24: recipes always have lines
\* C24: every recipe stored through the recipe API has at least one
\* ingredient line in every state that other requests can see, also while a
\* create or an update of it is under way. A create between its INSERT of
\* the recipe row and its bulk_create, and an update between its delete and
\* its bulk_create, refute it.
C24_RecipesKeepLines ==
    \A r \in recipes : \E ri \in recipe_ingredients : ri.recipe = r

\* ------------------------------------------- C25: an update replaces lines
\* The step answers an update of a recipe.
UpdateRequest ==
    /\ response = NoResponse
    /\ request'.view = "recipes"
    /\ request'.method = "PATCH"

\* The (ingredient, amount) lines that a table holds for a recipe.
LinesOf(table, recipe) ==
    {<<ri.ingredient, ri.amount>> : ri \in {x \in table : x.recipe = recipe}}

\* The (ingredient, amount) lines that a request submits.
Submitted(req) ==
    {<<req.data[i].id, req.data[i].amount>> : i \in 1..Len(req.data)}

WriteByOther ==
    /\ response = NoResponse
    /\ request'.view = "recipes"
    /\ request'.method \in {"PATCH", "DELETE"}
    /\ request'.recipe \in recipes
    /\ author[request'.recipe] # request'.user

\* The step leaves the recipe and its lines as they were.
RecipeUntouched(r) ==
    /\ r \in recipes'
    /\ author'[r] = author[r]
    /\ LinesOf(recipe_ingredients', r) = LinesOf(recipe_ingredients, r)

\* C26: a recipe is changed or removed only by a request of its author, and
\* an update or delete by any other user raises permission denied and leaves
\* the recipe and its lines unchanged. An update by another user whose data
\* does not pass validation refutes it: it is answered with the 400
\* validation error, the author never being looked at.
C26_OnlyAuthorWrites ==
    [][/\ \A r \in recipes : ~RecipeUntouched(r) => request'.user = author[r]
       /\ WriteByOther =>
            /\ response' = ErrorResponse(403, PERMISSION_DENIED)
            /\ RecipeUntouched(request'.recipe)]_vars

\* -------------------------------------------------- C27: subscriptions
\* The step answers a request to subscribe or to unsubscribe that names a
\* stored user.
FollowStep ==
    /\ response = NoResponse
    /\ request'.view \in {"FollowViewSet", "UserViewSet"}
    /\ request'.following \in users

\* C27: after any sequence of subscribe and unsubscribe requests no
\* subscription is of a user to the same user and no (user, following) pair
\* has more than one; a request to subscribe to oneself and a repeated
\* subscribe are rejected with 400 and leave the subscriptions unchanged, and
\* to unsubscribe when not subscribed returns 400 and changes nothing.
C27_SubscriptionsAreProper ==
    /\ [](\A u, f \in Users :
             /\ CopiesIn(FollowRow(u, f), follow) <= 1
             /\ u = f => CopiesIn(FollowRow(u, f), follow) = 0)
    /\ [][FollowStep =>
            LET user       == request'.user
                following  == request'.following
                subscribed == IsFollowing(user, following)
            IN  /\ (/\ request'.method = "POST"
                    /\ user = following \/ subscribed)
                   => response'.status = 400 /\ UNCHANGED follow
                /\ (request'.method = "DELETE" /\ ~subscribed)
                   => response'.status = 400 /\ UNCHANGED follow]_vars

\* A repeated subscribe was rejected: the subscription is there, once, and so
\* is the one in the other direction.
C27_Witness ==
    /\ request.view = "FollowViewSet"
    /\ request.method = "POST"
    /\ request.user # request.following
    /\ response = ErrorResponse(400, ALREADY_FOLLOWING)
    /\ CopiesIn(FollowRow(request.user, request.following), follow) = 1
    /\ IsFollowing(request.following, request.user)

\* --------------------------------------------------------- C28: short links
\* The step answers a request that looks a recipe up by a short link that a
\* stored recipe has.
LinkLookup ==
    /\ response = NoResponse
    /\ request'.view \in {"retrieve_by_short_link", "short_link_redirect"}
    /\ \E r \in recipes : short_link[r] = request'.short_link

\* C28: once Recipe.save has completed every stored recipe has a short link
\* that is not empty, is the hash of its id and differs from the short link
\* of every other recipe; no later save and no get_link request changes it,
\* and retrieve_by_short_link and short_link_redirect resolve it to that
\* recipe.
C28_ShortLinksIdentifyRecipes ==
    /\ [](\A r \in recipes :
             /\ short_link[r] # <<>>
             /\ short_link[r] = generate_hash(r)
             /\ \A q \in recipes : short_link[q] = short_link[r] => q = r)
    /\ [][/\ \A r \in recipes \cap recipes' : short_link'[r] = short_link[r]
          /\ LinkLookup =>
               \E r \in recipes :
                  /\ short_link[r] = request'.short_link
                  /\ response' \in
                       {TextResponse(200, Str(r)),
                        TextResponse(302,
                           <<"/", "r", "e", "c", "i", "p", "e", "s", "/">>
                           \o Str(r) \o <<"/">>)}]_vars

\* Two recipes are stored, the first has been updated by its author since it
\* was created, and the short link of the second has just been resolved.
C28_Witness ==
    /\ recipes = {1, 2}
    /\ request.view = "short_link_redirect"
    /\ request.short_link = short_link[2]
    /\ response.status = 302
    /\ \E ri \in recipe_ingredients : ri.recipe = 1 /\ ri.ingredient = 2

\* ---------------------------------------------------------- C29: page size
\* The request is a list request that has been answered.
ListAnswered ==
    /\ response # NoResponse
    /\ request.view \in {"recipes", "users", "subscriptions"}

\* C29: the page size applied to a list request is min(limit, MAX_PAGE_SIZE)
\* when limit is a positive integer and the default page size when limit is
\* absent, not a number, zero or negative; it is never above MAX_PAGE_SIZE
\* and never below 1.
C29_PageSizeWithinLimits ==
    ListAnswered =>
        LET parsed   == ParseInt(request.limit)
            positive == request.limit # NoParam /\ parsed.ok
                        /\ parsed.value > 0
        IN  /\ positive /\ parsed.value <= MAX_PAGE_SIZE
                 => response.page_size = parsed.value
            /\ positive /\ parsed.value > MAX_PAGE_SIZE
                 => response.page_size = MAX_PAGE_SIZE
            /\ ~positive => response.page_size = DEFAULT_PAGE_SIZE
            /\ response.page_size <= MAX_PAGE_SIZE
            /\ response.page_size >= 1

\* ------------------------------------------ C30: exports and other carts
\* The rows of the user in the cart table, and the ingredient lines of the
\* recipes they reference.
OwnCart(user) ==
    [r \in CartRecipes(user) |-> CopiesIn(CartRow(user, r), shopping_cart)]

OwnLines(user) ==
    {ri \in recipe_ingredients : ri.recipe \in CartRecipes(user)}

\* What a download of the user reads from the tables: for the given set of
\* selected recipe ids and the given orders, the ingredient lines of the cart
\* items it iterates, item by item.
LinesRead(user, scope, cart_order, line_order) ==
    LET items == CartItems(user, scope, cart_order)
    IN  [i \in 1..Len(items) |-> RecipeLines(items[i].recipe, line_order)]

\* Everything the downloads of the user can read in the current state, for
\* every set of ids that a recipe_ids parameter can select.
ReadsOf(user) ==
    {<<scope, LinesRead(user, scope, cart_order, line_order)>> :
        scope \in SUBSET (RecipeIds \cup {3}),
        cart_order \in Perms(CartRecipes(user)),
        line_order \in Perms({ri.ingredient : ri \in recipe_ingredients})}

\* The step changes a table and leaves the user's cart rows and the lines of
\* their recipes as they are.
OthersStep(user) ==
    /\ <<recipes, recipe_ingredients, shopping_cart>>'
          # <<recipes, recipe_ingredients, shopping_cart>>
    /\ OwnCart(user)' = OwnCart(user)
    /\ OwnLines(user)' = OwnLines(user)

\* The answer held is the export computed from lines that the download read
\* of the requesting user's own cart, and from the format, alone.
AnswerFromOwnLines ==
    \E cart_order \in Perms(CartRecipes(request.user)) :
    \E line_order \in Perms({ri.ingredient : ri \in recipe_ingredients}) :
       LET read == LinesRead(request.user, Scope(request.recipe_ids),
                             cart_order, line_order)
       IN  /\ Len(cart_items) = Len(read)
           /\ ingredients = AddLines(<<>>, Flatten(read))
           /\ response = BuildResponse([failed |-> FALSE,
                                        cart_items |-> cart_items,
                                        ingredients |-> ingredients],
                                       request.format)

\* C30: the export of a user depends on the user's own cart only. A step
\* that leaves the user's cart rows and the ingredient lines of their recipes
\* unchanged leaves what a download of the user reads unchanged, whatever it
\* does to the carts and recipes of the others, and the answer is computed
\* from what was read and the format alone, so that it is the same in both
\* states; every cart item iterated is the user's own and every (name, unit)
\* pair of an export belongs to a line of a recipe in the user's own cart,
\* also when recipe_ids names a recipe that only another user has in the
\* cart.
C30_ExportDependsOnOwnCart ==
    /\ [][\A user \in users :
            OthersStep(user) => ReadsOf(user)' = ReadsOf(user)]_vars
    /\ [](Aggregated =>
            /\ AnswerFromOwnLines
            /\ \A i \in 1..Len(cart_items) : cart_items[i].user = request.user
            /\ \A i \in 1..Len(ingredients) :
                  ingredients[i].key \in {KeyOf(ri) : ri \in OwnLines(request.user)})

\* The user exports with a filter that names, next to a recipe of the own
\* cart, a recipe that only another user has in the cart, and a pair of that
\* recipe is not in the export.
C30_Witness ==
    /\ Aggregated
    /\ response.status = 200
    /\ \E r \in FilterIds \cap recipes :
          /\ ~InCart(request.user, r)
          /\ \E u \in users : InCart(u, r)
          /\ \E ri \in recipe_ingredients :
                /\ ri.recipe = r
                /\ \A i \in 1..Len(ingredients) : ingredients[i].key # KeyOf(ri)
    /\ \E q \in FilterIds : InCart(request.user, q)

=============================================================================
